---- MODULE Spec2Model ----
(***************************************************************************)
(* Hybrid memory layer of WARNERCO Robotics Schematica:                    *)
(*   - ScratchpadStore (app/adapters/scratchpad_store.py): session-scoped, *)
(*     token-budgeted, TTL-expiring working memory;                        *)
(*   - GraphStore (app/adapters/graph_store.py): SQLite triplet store      *)
(*     mirrored by an in-memory NetworkX DiGraph.                          *)
(* The two stores never call each other; each has its own specification.   *)
(***************************************************************************)
EXTENDS Integers, Sequences, FiniteSets, TLC

(***************************************************************************)
(* Bounds of the model                                                     *)
(***************************************************************************)
\* number of entry ids the scratchpad generates in one behaviour
MaxWrites == 3
\* storage faults in one behaviour of the graph store
MaxFaults == 1
\* last instant of the clock
MaxTime == 2
\* reset_scratchpad_store calls in one behaviour
MaxResets == 2
\* entries written to one store that get_scratchpad_store returned
MaxStoreWrites == 1

(***************************************************************************)
(* ScratchpadStore: configuration and inputs                               *)
(***************************************************************************)
\* ScratchpadStore(max_tokens=...)
max_tokens == 100
\* ScratchpadStore(entry_ttl_minutes=...), in clock instants
entry_ttl_minutes == 1
\* ScratchpadStore(inject_budget=...)
inject_budget == 90
\* the fallback truncates only texts of more than this many tokens
TruncateThreshold == 50
\* tokens of the "[predicate] subject -> object_: " part of a context line
LinePrefixTokens == 5

VALID_SCRATCHPAD_PREDICATES ==
    {"observed", "inferred", "relevant_to", "summarized_as",
     "contradicts", "supersedes", "depends_on"}

\* a text is its number of words and the tokens each word encodes to
Text(w, t) == [words |-> w, tpw |-> t]

Subjects == {"A", "B"}
\* the (subject, predicate) pairs written; the last predicate is not in
\* the vocabulary
WriteTargets == {<<"A", "observed">>, <<"B", "inferred">>,
                 <<"A", "not_a_real_predicate">>}
\* a text that fits the budget twice, and one larger than the whole budget
Contents == {Text(40, 1), Text(60, 2)}
\* what the external compressor may answer: shorter than the second
\* content, not shorter than the first
CompressorOutputs == {Text(45, 1)}
\* token_budget arguments of get_context_for_injection; NoBudget is None
NoBudget == -1
TokenBudgetArgs == {NoBudget, 0, 47, 95}

AllCallers == {"c1", "c2", "c3"}
\* c1 and c2 are coroutines of one event loop, c3 runs on another thread
ThreadOf(c) == IF c = "c3" THEN "t2" ELSE "t1"
\* the callers of the sequential specification
Callers == {"c1", "c2"}

NoEntry == 0
\* None where a text is expected
NoText == [words |-> 0, tpw |-> 0]

VARIABLES
    entries,        \* self._entries, in insertion order
    cache,          \* self._enrichment_cache: entry id -> expansion
    lock,           \* self._lock: owning thread and recursion count
    now,            \* the clock
    nextId,         \* the next fresh entry id
    has_llm_config, \* settings.has_llm_config
    pc,             \* where each caller is
    req,            \* the arguments of each caller's call in progress
    last            \* the call that returned last, with its result

svars == <<entries, cache, lock, now, nextId, has_llm_config, pc, req, last>>

VARIABLES
    db,             \* the tables as statements on self._conn see them
    disk,           \* the tables as committed to the database file
    graph,          \* self._graph, the NetworkX DiGraph
    nfaults,        \* how many storage faults have occurred
    acked,          \* the rows whose insert returned true to its caller
    gpc,            \* where each thread calling the GraphStore is
    glast           \* the GraphStore call that returned last

gvars == <<db, disk, graph, nfaults, acked, gpc, glast>>

VARIABLES
    scratchpad_store,   \* the module global _scratchpad_store
    scratchpad_lock,    \* _scratchpad_lock: the thread that holds it
    instances,          \* every ScratchpadStore constructed so far
    resets,             \* how many reset_scratchpad_store calls assigned
    mpc,                \* where each thread is in the singleton's functions
    returns             \* what get_scratchpad_store returned, and when

mvars == <<scratchpad_store, scratchpad_lock, instances, resets, mpc, returns>>

vars == <<svars, gvars, mvars>>

(***************************************************************************)
(* ScratchpadStore: helpers                                                *)
(***************************************************************************)
\* _count_tokens with the tiktoken encoding loaded
CountTokens(text) == text.words * text.tpw

\* mutant of IsExpired: an entry lives one instant longer
IsExpiredLate(e, t) == t > e.expires_at + 1

\* _is_expired
IsExpired(e, t) == t > e.expires_at

RECURSIVE SumTokens(_)
\* _current_token_usage
SumTokens(es) ==
    IF es = <<>> THEN 0 ELSE Head(es).minimized_tokens + SumTokens(Tail(es))

Ids(es) == {es[i].id : i \in DOMAIN es}

RemoveAt(es, i) == SubSeq(es, 1, i - 1) \o SubSeq(es, i + 1, Len(es))

Restrict(f, S) == [x \in (DOMAIN f) \cap S |-> f[x]]

\* self._enrichment_cache.pop(entry_id, None) for every entry of es that is
\* not in kept
PopRemoved(ch, es, kept) == Restrict(ch, (DOMAIN ch) \ (Ids(es) \ Ids(kept)))

\* _cleanup_expired on the entry map
CleanupExpired(es, t) == SelectSeq(es, LAMBDA e : ~IsExpired(e, t))

\* mutant of OldestIndex: smallest-first eviction
OldestIndexSmallestFirst(es) ==
    CHOOSE i \in DOMAIN es :
        /\ \A j \in DOMAIN es :
               es[i].minimized_tokens <= es[j].minimized_tokens
        /\ \A j \in 1..(i - 1) :
               es[j].minimized_tokens > es[i].minimized_tokens

\* min(self._entries.values(), key=created_at): the first minimal one
OldestIndex(es) ==
    CHOOSE i \in DOMAIN es :
        /\ \A j \in DOMAIN es : es[i].created_at <= es[j].created_at
        /\ \A j \in 1..(i - 1) : es[j].created_at > es[i].created_at

RECURSIVE EnforceLoopAtLimit(_, _, _, _)
\* mutant of EnforceLoop: evicts as soon as the budget would be reached
EnforceLoopAtLimit(es, usage, needed, ev) ==
    IF usage + needed >= max_tokens /\ es # <<>>
    THEN LET i == OldestIndex(es)
         IN  EnforceLoopAtLimit(RemoveAt(es, i),
                                usage - es[i].minimized_tokens,
                                needed, Append(ev, es[i]))
    ELSE [entries |-> es, evicted |-> ev]

RECURSIVE EnforceLoop(_, _, _, _)
EnforceLoop(es, usage, needed, ev) ==
    IF usage + needed > max_tokens /\ es # <<>>
    THEN LET i == OldestIndex(es)
         IN  EnforceLoop(RemoveAt(es, i), usage - es[i].minimized_tokens,
                         needed, Append(ev, es[i]))
    ELSE [entries |-> es, evicted |-> ev]

\* _enforce_token_budget
EnforceTokenBudget(es, needed) == EnforceLoop(es, SumTokens(es), needed, <<>>)

\* words[:int(len(words) * 0.75)]
Truncate(text) == Text((text.words * 3) \div 4, text.tpw)

\* the fallback of _minimize_content
FallbackMinimize(content) ==
    IF CountTokens(content) > TruncateThreshold
    THEN Truncate(content)
    ELSE content

\* mutant of MinimizeContent: the output is used without the comparison
MinimizeContentUnchecked(content, answer, output) ==
    IF answer = "text" THEN output ELSE FallbackMinimize(content)

\* mutant of MinimizeContent: an output that is not longer is accepted
MinimizeContentNotLonger(content, answer, output) ==
    IF answer = "text" /\ CountTokens(output) <= CountTokens(content)
    THEN output
    ELSE FallbackMinimize(content)

\* _minimize_content; answer is "none" (no LLM configured), "raises" or
\* "text" with the compressor's output
MinimizeContent(content, answer, output) ==
    IF answer = "text" /\ CountTokens(output) < CountTokens(content)
    THEN output
    ELSE FallbackMinimize(content)

\* sorted(self._entries.values(), key=created_at, reverse=True): a stable
\* sort, entries of equal created_at stay in insertion order
NewestIndex(es) ==
    CHOOSE i \in DOMAIN es :
        /\ \A j \in DOMAIN es : es[i].created_at >= es[j].created_at
        /\ \A j \in 1..(i - 1) : es[j].created_at < es[i].created_at

RECURSIVE SortNewestFirst(_)
SortNewestFirst(es) ==
    IF es = <<>> THEN <<>>
    ELSE LET i == NewestIndex(es)
         IN  <<es[i]>> \o SortNewestFirst(RemoveAt(es, i))

\* count_tokens(f"[{predicate}] {subject} -> {object_}: {content}")
LineTokens(e) == LinePrefixTokens + CountTokens(e.content)

RECURSIVE GreedyLinesBestFit(_, _, _, _)
\* mutant of GreedyLines: a line that does not fit is skipped and the loop
\* goes on to older entries
GreedyLinesBestFit(sorted, budget, lines, total) ==
    IF sorted = <<>> THEN [lines |-> lines, total_tokens |-> total]
    ELSE LET line_tokens == LineTokens(Head(sorted))
         IN  IF total + line_tokens <= budget
             THEN GreedyLinesBestFit(Tail(sorted), budget,
                                     Append(lines, [id |-> Head(sorted).id,
                                                    tokens |-> line_tokens]),
                                     total + line_tokens)
             ELSE GreedyLinesBestFit(Tail(sorted), budget, lines, total)

RECURSIVE GreedyLines(_, _, _, _)
\* the loop of get_context_for_injection: stop at the first line that
\* does not fit
GreedyLines(sorted, budget, lines, total) ==
    IF sorted = <<>> THEN [lines |-> lines, total_tokens |-> total]
    ELSE LET line_tokens == LineTokens(Head(sorted))
         IN  IF total + line_tokens <= budget
             THEN GreedyLines(Tail(sorted), budget,
                              Append(lines, [id |-> Head(sorted).id,
                                             tokens |-> line_tokens]),
                              total + line_tokens)
             ELSE [lines |-> lines, total_tokens |-> total]

\* budget = token_budget or self._inject_budget
EffectiveBudget(token_budget) ==
    IF token_budget = NoBudget \/ token_budget = 0
    THEN inject_budget
    ELSE token_budget

(***************************************************************************)
(* ScratchpadStore: the lock (threading.RLock)                             *)
(***************************************************************************)
NoThread == "none"
FreeLock == [owner |-> NoThread, count |-> 0]

\* mutant of CanAcquire: a threading.Lock, which its owner cannot re-enter
CanAcquireNotReentrant(c) == lock.owner = NoThread

\* an RLock is free, or re-entered by the thread that owns it
CanAcquire(c) == lock.owner \in {NoThread, ThreadOf(c)}

Acquire(l, c) == [owner |-> ThreadOf(c), count |-> l.count + 1]

Release(l) ==
    IF l.count = 1 THEN FreeLock
    ELSE [owner |-> l.owner, count |-> l.count - 1]

\* lock.acquire() blocks the calling thread, not only the calling
\* coroutine: while a caller waits for the lock, no coroutine of its
\* thread runs
Runs(c) ==
    \A d \in AllCallers \ {c} :
        ThreadOf(d) = ThreadOf(c) => pc[d] # "blocked"

\* a call begins, or goes on after it has waited for the lock
Starts(c, call) ==
    /\ Runs(c)
    /\ \/ pc[c] = "idle"
       \/ pc[c] = "blocked" /\ req[c].call = call

\* the call returns to its caller
Returned(c) ==
    /\ pc' = [pc EXCEPT ![c] = "idle"]
    /\ req' = [req EXCEPT ![c] = [op |-> "none"]]

(***************************************************************************)
(* ScratchpadStore: state                                                  *)
(***************************************************************************)
NoReq == [op |-> "none"]
NoCache == [i \in {} |-> Text(0, 1)]

SInit ==
    /\ entries = <<>>
    /\ cache = NoCache
    /\ lock = FreeLock
    /\ now = 0
    /\ nextId = 1
    /\ has_llm_config \in BOOLEAN
    /\ pc = [c \in AllCallers |-> "idle"]
    /\ req = [c \in AllCallers |-> NoReq]
    /\ last = [op |-> "init"]

\* the clock advances; datetime.now() may also read the same instant twice
Tick ==
    /\ now < MaxTime
    /\ now' = now + 1
    /\ last' = [op |-> "tick"]
    /\ UNCHANGED <<entries, cache, lock, nextId, has_llm_config, pc, req,
                   gvars, mvars>>

\* the callers inside write: suspended at the compressor, or waiting for
\* the lock
Awaiting ==
    {c \in AllCallers :
        \/ pc[c] = "write_await"
        \/ pc[c] = "blocked" /\ req[c].call = "write"}

\* a write may start, or go on, while fresh ids remain for it
IdsRemain(c) == nextId + Cardinality(Awaiting \ {c}) <= MaxWrites

\* 'with self._lock:' of a call while another thread owns the lock
Block(c, call) ==
    /\ pc[c] = "idle"
    /\ Runs(c)
    /\ ~CanAcquire(c)
    /\ call = "write" => IdsRemain(c)
    /\ pc' = [pc EXCEPT ![c] = "blocked"]
    /\ req' = [req EXCEPT ![c] = [op |-> "blocked", call |-> call]]
    /\ UNCHANGED <<entries, cache, lock, now, nextId, has_llm_config, last,
                   gvars, mvars>>

(***************************************************************************)
(* ScratchpadStore.write                                                   *)
(***************************************************************************)
\* the entry write creates (lines 332-346)
NewEntry(id, subject, predicate, minimized_content, original_tokens, t) ==
    [id |-> id, subject |-> subject, predicate |-> predicate,
     object_ |-> "obj", content |-> minimized_content,
     original_tokens |-> original_tokens,
     minimized_tokens |-> CountTokens(minimized_content),
     enriched_content |-> NoText,
     created_at |-> t, expires_at |-> t + entry_ttl_minutes]

\* what a write was called with and what the compressor did for it:
\* answer is "off" (minimize is false), "none" (no LLM is configured),
\* "raises" or "text" with the compressor's output
HowWritten(content, minimize, answer, output) ==
    [content |-> content, minimize |-> minimize, answer |-> answer,
     output |-> IF answer = "text" THEN output ELSE NoText]

\* lines 326-357 of write, on the entry map es and the cache ch as they
\* are when the minimisation has returned: budget, insert, result
WriteStore(c, es, ch, subject, predicate, content, minimized_content, how) ==
    LET original_tokens == CountTokens(content)
        minimized_tokens == CountTokens(minimized_content)
        r == EnforceTokenBudget(es, minimized_tokens)
        entry == NewEntry(nextId, subject, predicate, minimized_content,
                          original_tokens, now)
    IN  /\ entries' = Append(r.entries, entry)
        /\ cache' = PopRemoved(ch, es, r.entries)
        /\ nextId' = nextId + 1
        /\ last' = [op |-> "write", caller |-> c, predicate |-> predicate,
                    success |-> TRUE, entry |-> entry.id,
                    tokens_saved |-> original_tokens - minimized_tokens,
                    evicted |-> Len(r.evicted), how |-> how]

\* mutant of WriteInvalid: the predicate is validated after the sweep
WriteInvalidAfterSweep(c, subject, predicate, content, minimize) ==
    /\ Starts(c, "write")
    /\ predicate \notin VALID_SCRATCHPAD_PREDICATES
    /\ CanAcquire(c)
    /\ entries' = CleanupExpired(entries, now)
    /\ cache' = PopRemoved(cache, entries, entries')
    /\ last' = [op |-> "write", caller |-> c, predicate |-> predicate,
                success |-> FALSE, entry |-> NoEntry, tokens_saved |-> 0,
                evicted |-> 0]
    /\ Returned(c)
    /\ UNCHANGED <<lock, now, nextId, has_llm_config, gvars, mvars>>

\* write with a predicate outside the vocabulary (lines 305-312)
WriteInvalid(c, subject, predicate, content, minimize) ==
    /\ pc[c] = "idle"
    /\ Runs(c)
    /\ predicate \notin VALID_SCRATCHPAD_PREDICATES
    /\ last' = [op |-> "write", caller |-> c, predicate |-> predicate,
                success |-> FALSE, entry |-> NoEntry, tokens_saved |-> 0,
                evicted |-> 0]
    /\ UNCHANGED <<entries, cache, lock, now, nextId, has_llm_config, pc, req,
                   gvars, mvars>>

\* write that never suspends: minimize is off, or no LLM is configured and
\* _minimize_content runs to its fallback without awaiting anything
WriteSync(c, subject, predicate, content, minimize) ==
    /\ Starts(c, "write")
    /\ predicate \in VALID_SCRATCHPAD_PREDICATES
    /\ ~minimize \/ ~has_llm_config
    /\ IdsRemain(c)
    /\ CanAcquire(c)
    /\ LET swept == CleanupExpired(entries, now)
       IN  WriteStore(c, swept, PopRemoved(cache, entries, swept),
                      subject, predicate, content,
                      IF minimize
                      THEN MinimizeContent(content, "none", NoText)
                      ELSE content,
                      HowWritten(content, minimize,
                                 IF minimize THEN "none" ELSE "off", NoText))
    /\ Returned(c)
    /\ UNCHANGED <<lock, now, has_llm_config, gvars, mvars>>

\* write with minimize on and an LLM configured, up to the await of
\* llm.ainvoke (lines 314-320 and 198): the lock is taken, expired entries
\* are swept, and the coroutine suspends holding the lock
WriteBegin(c, subject, predicate, content) ==
    /\ Starts(c, "write")
    /\ predicate \in VALID_SCRATCHPAD_PREDICATES
    /\ has_llm_config
    /\ IdsRemain(c)
    /\ CanAcquire(c)
    /\ lock' = Acquire(lock, c)
    /\ entries' = CleanupExpired(entries, now)
    /\ cache' = PopRemoved(cache, entries, entries')
    /\ pc' = [pc EXCEPT ![c] = "write_await"]
    /\ req' = [req EXCEPT ![c] = [op |-> "write", subject |-> subject,
                                  predicate |-> predicate,
                                  content |-> content]]
    /\ last' = [op |-> "write_begin", caller |-> c]
    /\ UNCHANGED <<now, nextId, has_llm_config, gvars, mvars>>

\* mutant of WriteEnd: what the compressor raises leaves write, which
\* stores nothing
WriteEndPropagates(c, answer, output) ==
    /\ pc[c] = "write_await"
    /\ Runs(c)
    /\ answer \in {"text", "raises"}
    /\ IF answer = "raises"
       THEN /\ last' = [op |-> "write", caller |-> c,
                        predicate |-> req[c].predicate, success |-> FALSE,
                        entry |-> NoEntry, tokens_saved |-> 0, evicted |-> 0,
                        how |-> HowWritten(req[c].content, TRUE, answer,
                                           output)]
            /\ UNCHANGED <<entries, cache, nextId>>
       ELSE WriteStore(c, entries, cache, req[c].subject, req[c].predicate,
                       req[c].content,
                       MinimizeContent(req[c].content, answer, output),
                       HowWritten(req[c].content, TRUE, answer, output))
    /\ lock' = Release(lock)
    /\ pc' = [pc EXCEPT ![c] = "idle"]
    /\ req' = [req EXCEPT ![c] = NoReq]
    /\ UNCHANGED <<now, has_llm_config, gvars, mvars>>

\* the awaited compressor call returns (answer "text") or raises, and
\* write runs to its end (lines 199-218 and 326-357)
WriteEnd(c, answer, output) ==
    /\ pc[c] = "write_await"
    /\ Runs(c)
    /\ answer \in {"text", "raises"}
    /\ WriteStore(c, entries, cache, req[c].subject, req[c].predicate,
                  req[c].content,
                  MinimizeContent(req[c].content, answer, output),
                  HowWritten(req[c].content, TRUE, answer, output))
    /\ lock' = Release(lock)
    /\ pc' = [pc EXCEPT ![c] = "idle"]
    /\ req' = [req EXCEPT ![c] = NoReq]
    /\ UNCHANGED <<now, has_llm_config, gvars, mvars>>

(***************************************************************************)
(* ScratchpadStore.get_context_for_injection                               *)
(***************************************************************************)
GetContextForInjection(c, token_budget) ==
    /\ Starts(c, "get_context_for_injection")
    /\ CanAcquire(c)
    /\ LET budget == EffectiveBudget(token_budget)
           swept == CleanupExpired(entries, now)
           r == GreedyLines(SortNewestFirst(swept), budget, <<>>, 0)
       IN  /\ entries' = swept
           /\ cache' = PopRemoved(cache, entries, swept)
           /\ last' = [op |-> "inject", token_budget |-> token_budget,
                       context_lines |-> r.lines,
                       total_tokens |-> r.total_tokens]
    /\ Returned(c)
    /\ UNCHANGED <<lock, now, nextId, has_llm_config, gvars, mvars>>

(***************************************************************************)
(* ScratchpadStore.clear                                                   *)
(***************************************************************************)
NoSubject == ""
NoAge == -1
AgeArgs == {NoAge, 0, 1}

\* mutant of ShouldClear: a subject filter clears the entries of every
\* subject
ShouldClearAnySubject(e, subject, older_than_minutes, t) ==
    IF subject # NoSubject THEN TRUE
    ELSE IF older_than_minutes # NoAge
         THEN e.created_at < t - older_than_minutes
         ELSE subject = NoSubject

\* mutant of ShouldClear: an entry created at the cutoff is cleared too
ShouldClearAtCutoff(e, subject, older_than_minutes, t) ==
    IF subject # NoSubject /\ e.subject = subject THEN TRUE
    ELSE IF older_than_minutes # NoAge
         THEN e.created_at <= t - older_than_minutes
         ELSE subject = NoSubject

\* the should_clear decision of clear (lines 429-442)
ShouldClear(e, subject, older_than_minutes, t) ==
    IF subject # NoSubject /\ e.subject = subject THEN TRUE
    ELSE IF older_than_minutes # NoAge
         THEN e.created_at < t - older_than_minutes
         ELSE subject = NoSubject

Clear(c, subject, older_than_minutes) ==
    /\ Starts(c, "clear")
    /\ CanAcquire(c)
    /\ LET kept == SelectSeq(entries, LAMBDA e :
                       ~ShouldClear(e, subject, older_than_minutes, now))
       IN  /\ entries' = kept
           /\ cache' = PopRemoved(cache, entries, kept)
           /\ last' = [op |-> "clear", subject |-> subject,
                       older_than_minutes |-> older_than_minutes,
                       cleared_count |-> Len(entries) - Len(kept)]
    /\ Returned(c)
    /\ UNCHANGED <<lock, now, nextId, has_llm_config, gvars, mvars>>

(***************************************************************************)
(* ScratchpadStore.stats                                                   *)
(***************************************************************************)
RECURSIVE SumOriginalTokens(_)
\* sum(e.original_tokens for e in entries)
SumOriginalTokens(es) ==
    IF es = <<>> THEN 0
    ELSE Head(es).original_tokens + SumOriginalTokens(Tail(es))

\* predicate_counts: the predicates of the entries, each with the number
\* of entries that have it
PredicateCounts(es) ==
    [p \in {es[i].predicate : i \in DOMAIN es} |->
        Cardinality({i \in DOMAIN es : es[i].predicate = p})]

\* stats (lines 456-493); swept is the return value of _cleanup_expired
ScratchpadStats(c) ==
    /\ Starts(c, "stats")
    /\ CanAcquire(c)
    /\ LET swept == CleanupExpired(entries, now)
           total_original == SumOriginalTokens(swept)
           total_minimized == SumTokens(swept)
       IN  /\ entries' = swept
           /\ cache' = PopRemoved(cache, entries, swept)
           /\ last' = [op |-> "stats",
                       swept |-> Len(entries) - Len(swept),
                       entry_count |-> Len(swept),
                       total_original_tokens |-> total_original,
                       total_minimized_tokens |-> total_minimized,
                       tokens_saved |-> total_original - total_minimized,
                       token_budget |-> max_tokens,
                       token_budget_used |-> total_minimized,
                       token_budget_remaining |->
                           max_tokens - total_minimized,
                       predicate_counts |-> PredicateCounts(swept)]
    /\ Returned(c)
    /\ UNCHANGED <<lock, now, nextId, has_llm_config, gvars, mvars>>

(***************************************************************************)
(* ScratchpadStore.read                                                    *)
(***************************************************************************)
NoPredicate == ""
\* what the external expander may answer
ExpanderOutputs == {Text(80, 1)}

\* mutant of Matches: the predicate filter is ignored
MatchesSubjectOnly(e, subject, predicate) ==
    subject = NoSubject \/ e.subject = subject

\* the filters of read (lines 384-388); an empty filter is no filter
Matches(e, subject, predicate) ==
    /\ subject = NoSubject \/ e.subject = subject
    /\ predicate = NoPredicate \/ e.predicate = predicate

\* mutant of SetEnriched: the expansion also replaces the entry's content
SetEnrichedOverContent(es, id, text) ==
    [i \in DOMAIN es |->
        IF es[i].id = id
        THEN [es[i] EXCEPT !.enriched_content = text, !.content = text]
        ELSE es[i]]

\* entry.enriched_content = enriched (line 398) on the entry object, which
\* the map still holds unless the entry was removed since the filter
SetEnriched(es, id, text) ==
    [i \in DOMAIN es |->
        IF es[i].id = id THEN [es[i] EXCEPT !.enriched_content = text]
        ELSE es[i]]

RECURSIVE EnrichRun(_, _, _, _, _)
\* the loop of lines 396-399 for as long as _enrich_content answers
\* without awaiting the LLM: from the cache, or the content when no LLM is
\* configured. It stops in front of the first entry that needs the LLM.
\* expanded tells whether the text is an output of the expander.
EnrichRun(es, ch, llm, todo, done) ==
    IF todo = <<>> THEN [entries |-> es, todo |-> todo, done |-> done]
    ELSE LET e == Head(todo)
         IN  IF e.id \in DOMAIN ch
             THEN EnrichRun(SetEnriched(es, e.id, ch[e.id]), ch, llm,
                            Tail(todo),
                            Append(done, [id |-> e.id, text |-> ch[e.id],
                                          expanded |-> TRUE]))
             ELSE IF ~llm
             THEN EnrichRun(SetEnriched(es, e.id, e.content), ch, llm,
                            Tail(todo),
                            Append(done, [id |-> e.id, text |-> e.content,
                                          expanded |-> FALSE]))
             ELSE [entries |-> es, todo |-> todo, done |-> done]

\* the arguments of a read and the entries its filter found (lines 377-391),
\* at the instant t of the call
ReadQuery(subject, predicate, enrich, found, t) ==
    [subject |-> subject, predicate |-> predicate, enrich |-> enrich,
     ids |-> [i \in DOMAIN found |-> found[i].id],
     contents |-> [i \in DOMAIN found |-> found[i].content],
     expires_at |-> [i \in DOMAIN found |-> found[i].expires_at],
     called_at |-> t]

\* ScratchpadReadResult (lines 401-405); texts are the enriched_content of
\* the returned entries
ReadResult(q, texts, expanded, enriched_count) ==
    [op |-> "read", subject |-> q.subject, predicate |-> q.predicate,
     enrich |-> q.enrich, entries |-> q.ids, contents |-> q.contents,
     expires_at |-> q.expires_at, called_at |-> q.called_at,
     texts |-> texts, expanded |-> expanded,
     total |-> Len(q.ids), enriched_count |-> enriched_count]

\* read up to its return, or up to its first await of the expander
Read(c, subject, predicate, enrich) ==
    /\ Starts(c, "read")
    /\ CanAcquire(c)
    /\ LET swept == CleanupExpired(entries, now)
           found == SortNewestFirst(
                        SelectSeq(swept, LAMBDA e :
                                      Matches(e, subject, predicate)))
           q == ReadQuery(subject, predicate, enrich, found, now)
           r == EnrichRun(swept, cache, has_llm_config, found, <<>>)
       IN  /\ cache' = PopRemoved(cache, entries, swept)
           /\ IF ~enrich
              THEN /\ entries' = swept
                   /\ last' = ReadResult(q,
                                  [i \in DOMAIN found |->
                                      found[i].enriched_content],
                                  [i \in DOMAIN found |-> FALSE], 0)
                   /\ Returned(c)
              ELSE /\ entries' = r.entries
                   /\ IF r.todo = <<>>
                      THEN /\ last' = ReadResult(q,
                                          [i \in DOMAIN r.done |->
                                              r.done[i].text],
                                          [i \in DOMAIN r.done |->
                                              r.done[i].expanded],
                                          Len(q.ids))
                           /\ Returned(c)
                      ELSE /\ last' = [op |-> "read_begin", caller |-> c]
                           /\ pc' = [pc EXCEPT ![c] = "read_await"]
                           /\ req' = [req EXCEPT ![c] =
                                         [op |-> "read", q |-> q,
                                          todo |-> r.todo, done |-> r.done]]
    /\ UNCHANGED <<lock, now, nextId, has_llm_config, gvars, mvars>>

\* the awaited expander call for the entry at the head of todo returns
\* (answer "text": the expansion is cached, lines 271-277) or raises (the
\* content is used, lines 279-281); read goes on to its next await or to
\* its return. None of this is under the lock.
ReadResume(c, answer, output) ==
    /\ pc[c] = "read_await"
    /\ Runs(c)
    /\ answer \in {"text", "raises"}
    /\ LET e == Head(req[c].todo)
           text == IF answer = "text" THEN output ELSE e.content
           ch == IF answer = "text"
                 THEN [x \in DOMAIN cache \cup {e.id} |->
                          IF x = e.id THEN output ELSE cache[x]]
                 ELSE cache
           r == EnrichRun(SetEnriched(entries, e.id, text), ch,
                          has_llm_config, Tail(req[c].todo),
                          Append(req[c].done,
                                 [id |-> e.id, text |-> text,
                                  expanded |-> answer = "text"]))
       IN  /\ cache' = ch
           /\ entries' = r.entries
           /\ IF r.todo = <<>>
              THEN /\ last' = ReadResult(req[c].q,
                                  [i \in DOMAIN r.done |-> r.done[i].text],
                                  [i \in DOMAIN r.done |->
                                      r.done[i].expanded],
                                  Len(req[c].q.ids))
                   /\ pc' = [pc EXCEPT ![c] = "idle"]
                   /\ req' = [req EXCEPT ![c] = NoReq]
              ELSE /\ last' = [op |-> "read_resume", caller |-> c]
                   /\ pc' = pc
                   /\ req' = [req EXCEPT ![c].todo = r.todo,
                                         ![c].done = r.done]
    /\ UNCHANGED <<lock, now, nextId, has_llm_config, gvars, mvars>>

(***************************************************************************)
(* ScratchpadStore: next-state relations                                   *)
(***************************************************************************)
\* Spec: writes, budget, injection and clearing, with every size of content
SNext ==
    \/ Tick
    \/ \E c \in Callers, w \in WriteTargets, t \in Contents, m \in BOOLEAN :
          \/ WriteInvalid(c, w[1], w[2], t, m)
          \/ WriteSync(c, w[1], w[2], t, m)
          \/ WriteBegin(c, w[1], w[2], t)
    \/ \E c \in Callers, a \in {"text", "raises"}, o \in CompressorOutputs :
          WriteEnd(c, a, o)
    \/ \E c \in Callers, b \in TokenBudgetArgs : GetContextForInjection(c, b)
    \/ \E c \in Callers, s \in Subjects \cup {NoSubject}, a \in AgeArgs :
          Clear(c, s, a)

\* SpecRead: reads with enrichment by one coroutine, interleaved with the writes (of
\* one size of content) and the clears of another
RNext ==
    \/ Tick
    \/ \E w \in WriteTargets :
          \/ WriteInvalid("c2", w[1], w[2], Text(40, 1), FALSE)
          \/ WriteSync("c2", w[1], w[2], Text(40, 1), FALSE)
    \/ \E s \in {"A", NoSubject}, e \in BOOLEAN :
          Read("c1", s, NoPredicate, e)
    \/ \E a \in {"text", "raises"}, o \in ExpanderOutputs :
          ReadResume("c1", a, o)
    \/ \E s \in {"A", NoSubject} : Clear("c2", s, NoAge)


(***************************************************************************)
(* ScratchpadStore: properties                                             *)
(***************************************************************************)
RECURSIVE SumLineTokens(_)
SumLineTokens(lines) ==
    IF lines = <<>> THEN 0
    ELSE Head(lines).tokens + SumLineTokens(Tail(lines))

EntryOf(es, id) == es[CHOOSE i \in DOMAIN es : es[i].id = id]

\* C1: after every successful write, the minimized_tokens of the stored
\* entries that have not expired, the new one included, sum to at most
\* max_tokens.
C1_BudgetInvariant ==
    (last.op = "write" /\ last.success)
        => SumTokens(CleanupExpired(entries, now)) <= max_tokens

\* the entry map as write's budget enforcement finds it: swept at this
\* instant by a write that does not suspend, as the awaited minimisation
\* left it otherwise
BeforeEnforce(c) ==
    IF pc[c] = "write_await" THEN entries ELSE CleanupExpired(entries, now)

\* C2: a write evicts oldest-first and no more than it must. The entries it
\* keeps stay as they were; every evicted entry is at least as old as every
\* kept one; nothing is evicted when the new entry fits; the eviction goes
\* on until the new entry fits or nothing is left, and the entry evicted
\* last was still needed to make room.
C2_OldestFirstEviction ==
    [][(last'.op = "write" /\ last'.success) =>
        LET before == BeforeEnforce(last'.caller)
            new == entries'[Len(entries')]
            needed == new.minimized_tokens
            kept == SubSeq(entries', 1, Len(entries') - 1)
            evicted == SelectSeq(before, LAMBDA e : e.id \notin Ids(kept))
        IN  /\ kept = SelectSeq(before, LAMBDA e : e.id \in Ids(kept))
            /\ \A i \in DOMAIN evicted, k \in DOMAIN kept :
                   evicted[i].created_at <= kept[k].created_at
            /\ last'.evicted = Len(evicted)
            /\ SumTokens(before) + needed <= max_tokens => evicted = <<>>
            /\ SumTokens(kept) + needed <= max_tokens \/ kept = <<>>
            /\ evicted # <<>> =>
                   \E i \in DOMAIN evicted :
                       /\ \A j \in DOMAIN evicted :
                              evicted[j].created_at <= evicted[i].created_at
                       /\ SumTokens(kept) + evicted[i].minimized_tokens
                              + needed > max_tokens
    ]_svars

\* C2 witness: a write evicted exactly one entry and kept another
C2_Witness ==
    /\ last.op = "write"
    /\ last.evicted = 1
    /\ Len(entries) = 2

\* C3: a write whose predicate is outside the vocabulary returns
\* success = false with no entry and leaves the entry map, the enrichment
\* cache and the token usage as they were.
C3_InvalidPredicateNoMutation ==
    [][(last'.op = "write"
            /\ last'.predicate \notin VALID_SCRATCHPAD_PREDICATES) =>
        /\ last'.success = FALSE
        /\ last'.entry = NoEntry
        /\ entries' = entries
        /\ cache' = cache
        /\ SumTokens(entries') = SumTokens(entries)
    ]_svars

\* C3 witness: an invalid write returned while an expired entry, which a
\* sweep would have removed, and a cached expansion are still stored
C3_Witness ==
    /\ last.op = "write"
    /\ last.predicate \notin VALID_SCRATCHPAD_PREDICATES
    /\ DOMAIN cache # {}
    /\ \E i \in DOMAIN entries : IsExpired(entries[i], now)

\* C4: for every token_budget B >= 0 passed to get_context_for_injection,
\* total_tokens is the sum of the tokens of the returned lines and is <= B.
C4_InjectionWithinBudget ==
    (last.op = "inject" /\ last.token_budget >= 0) =>
        /\ last.total_tokens = SumLineTokens(last.context_lines)
        /\ last.total_tokens <= last.token_budget

\* C5: get_context_for_injection returns the longest prefix of the stored,
\* non-expired entries in newest-first order that stays within the budget
\* the call uses (token_budget, or inject_budget when none is given): each
\* line is of an entry at least as new as every entry after it, the lines
\* fit the budget, and the newest entry left out would not have fitted.
C5_GreedyNewestPrefix ==
    last.op = "inject" =>
        LET lines == last.context_lines
            budget == EffectiveBudget(last.token_budget)
            shown(n) == {lines[i].id : i \in 1..n}
            rest == {i \in DOMAIN entries :
                        entries[i].id \notin shown(Len(lines))}
        IN  /\ \A i \in DOMAIN entries : ~IsExpired(entries[i], now)
            /\ Cardinality(shown(Len(lines))) = Len(lines)
            /\ shown(Len(lines)) \subseteq Ids(entries)
            /\ \A i \in DOMAIN lines :
                   /\ lines[i].tokens = LineTokens(EntryOf(entries, lines[i].id))
                   /\ \A j \in DOMAIN entries :
                          entries[j].id \notin shown(i - 1) =>
                              entries[j].created_at
                                  <= EntryOf(entries, lines[i].id).created_at
            /\ SumLineTokens(lines) <= budget
            /\ last.total_tokens = SumLineTokens(lines)
            /\ rest # {} =>
                   \E i \in rest :
                       /\ \A j \in rest :
                              entries[j].created_at <= entries[i].created_at
                       /\ SumLineTokens(lines) + LineTokens(entries[i]) > budget

\* C5 witness: the newest entry did not fit and nothing was returned,
\* although an older entry alone would have fitted
C5_Witness ==
    /\ last.op = "inject"
    /\ last.context_lines = <<>>
    /\ \E i \in DOMAIN entries :
           LineTokens(entries[i]) <= EffectiveBudget(last.token_budget)

\* the callers that are at an awaited call of the compressor or of the
\* expander
InExternalCall == {c \in AllCallers : pc[c] \in {"write_await", "read_await"}}

\* the callers inside a "with self._lock" block: a write stays in it while
\* it awaits the compressor (lines 314-357)
InLockedRegion == {c \in AllCallers : pc[c] = "write_await"}

\* C22: no call of the compressor or of the expander is in progress while
\* the operation that makes it holds the scratchpad lock.
C22_NoExternalCallUnderLock == InExternalCall \cap InLockedRegion = {}

\* C23: at most one operation is inside a lock-guarded region at any time,
\* two write coroutines of one thread included, one of which awaits the
\* compressor.
C23_LockedRegionsExclusive == Cardinality(InLockedRegion) <= 1

(***************************************************************************)
(* SpecMinimize: one caller's writes and reads with every behaviour of the *)
(* compressor and the expander, on contents at and around the truncation   *)
(* threshold                                                               *)
(***************************************************************************)
\* 50 tokens, 51 tokens and 120 tokens
MinimizeContents == {Text(50, 1), Text(51, 1), Text(60, 2)}
\* shorter than every content; as long as the second and longer than the
\* first
MinimizeOutputs == {Text(45, 1), Text(51, 1)}

MNext ==
    \/ \E t \in MinimizeContents, m \in BOOLEAN :
          \/ WriteSync("c1", "A", "observed", t, m)
          \/ WriteBegin("c1", "A", "observed", t)
    \/ \E a \in {"text", "raises"}, o \in MinimizeOutputs :
          WriteEnd("c1", a, o)
    \/ \E e \in BOOLEAN : Read("c1", "A", NoPredicate, e)
    \/ \E a \in {"text", "raises"}, o \in ExpanderOutputs :
          ReadResume("c1", a, o)

\* the entry a write stored
StoredBy(w) == EntryOf(entries, w.entry)

\* C18: a write with a valid predicate and minimize on returns success and
\* stores its entry whether the compressor is not configured, raises or
\* returns a text that is not shorter; a read with enrich on returns every
\* matching entry with a text, the content where the expander raised.
C18_CapabilityFailuresNeverFail ==
    /\ (/\ last.op = "write"
        /\ last.predicate \in VALID_SCRATCHPAD_PREDICATES
        /\ last.how.minimize)
           => /\ last.success
              /\ last.entry # NoEntry
              /\ \E i \in DOMAIN entries : entries[i].id = last.entry
    /\ (last.op = "read" /\ last.enrich)
           => /\ Len(last.texts) = last.total
              /\ \A i \in DOMAIN last.texts : last.texts[i] # NoText

\* C18 witness: the compressor raised and the write stored its entry
C18_Witness ==
    /\ last.op = "write"
    /\ last.how.minimize
    /\ last.how.answer = "raises"
    /\ last.success
    /\ \E i \in DOMAIN entries : entries[i].id = last.entry

\* C19: with minimize on, the stored content is the compressor's output
\* exactly when the output has strictly fewer tokens than the original;
\* otherwise it is the first 75% of the original's words when the original
\* has more than 50 tokens, and the original when it has 50 or fewer.
C19_MinimizedContentChoice ==
    (last.op = "write" /\ last.success /\ last.how.minimize) =>
        LET content == last.how.content
            original_tokens == content.words * content.tpw
            accepted == /\ last.how.answer = "text"
                        /\ last.how.output.words * last.how.output.tpw
                               < original_tokens
            stored == StoredBy(last).content
        IN  /\ accepted => stored = last.how.output
            /\ (~accepted /\ original_tokens > 50)
                   => stored = [words |-> (content.words * 3) \div 4,
                                tpw |-> content.tpw]
            /\ (~accepted /\ original_tokens <= 50) => stored = content

\* C19 witness: the compressor's output has as many tokens as the
\* original, and the truncated original is stored
C19_Witness ==
    /\ last.op = "write"
    /\ last.success
    /\ last.how.answer = "text"
    /\ CountTokens(last.how.output) = CountTokens(last.how.content)
    /\ StoredBy(last).content = Truncate(last.how.content)

\* C20: every stored entry has minimized_tokens <= original_tokens, on
\* every write path, and the tokens_saved a write returns is not negative.
C20_MinimizedNeverLarger ==
    /\ \A i \in DOMAIN entries :
           entries[i].minimized_tokens <= entries[i].original_tokens
    /\ last.op = "write" => last.tokens_saved >= 0

\* C20 witness: the compressor's output is longer than the original, which
\* is kept
C20_Witness ==
    /\ last.op = "write"
    /\ last.success
    /\ last.how.answer = "text"
    /\ CountTokens(last.how.output) > CountTokens(last.how.content)
    /\ StoredBy(last).minimized_tokens = StoredBy(last).original_tokens

(***************************************************************************)
(* SpecExpiry: the lazy TTL sweep seen by every operation that reports     *)
(* entries, with a write suspended at the compressor in between            *)
(***************************************************************************)
XNext ==
    \/ Tick
    \/ \E t \in Contents : WriteSync("c1", "A", "observed", t, FALSE)
    \/ WriteBegin("c1", "A", "observed", Text(40, 1))
    \/ \E a \in {"text", "raises"}, o \in CompressorOutputs :
          WriteEnd("c1", a, o)
    \/ \E e \in BOOLEAN : Read("c2", NoSubject, NoPredicate, e)
    \/ \E a \in {"text", "raises"}, o \in ExpanderOutputs :
          ReadResume("c2", a, o)
    \/ GetContextForInjection("c2", NoBudget)
    \/ ScratchpadStats("c2")

\* the entries of es whose expires_at is not earlier than t
Live(es, t) == SelectSeq(es, LAMBDA e : ~(e.expires_at < t))

\* what each operation shows right after its sweep
NoExpiredShown ==
    /\ last.op = "read" =>
           \A i \in DOMAIN last.expires_at :
               ~(last.expires_at[i] < last.called_at)
    /\ last.op = "stats" =>
           /\ last.entry_count = Len(Live(entries, now))
           /\ last.token_budget_used = SumTokens(Live(entries, now))
    /\ last.op = "inject" =>
           \A i \in DOMAIN last.context_lines :
               ~(EntryOf(entries, last.context_lines[i].id).expires_at < now)
    /\ last.op = "write_begin" => entries = Live(entries, now)

\* a write that does not suspend: the entries that have not expired are
\* all kept when they fit the budget together with the new entry, however
\* many expired entries were stored
SweepBeforeBudget ==
    (/\ last'.op = "write"
     /\ last'.success
     /\ last'.how.answer \in {"off", "none"}) =>
        LET live == Live(entries, now)
            new == EntryOf(entries', last'.entry)
        IN  /\ SumTokens(live) + new.minimized_tokens <= max_tokens
                => entries' = Append(live, new)
            /\ \A i \in DOMAIN entries' : ~(entries'[i].expires_at < now)

\* C21: no entry whose expires_at is earlier than the time of the call is
\* returned by read, counted by stats or formatted by
\* get_context_for_injection, and a write removes such entries before it
\* computes the budget usage.
C21_ExpiredNeverShown == []NoExpiredShown /\ [][SweepBeforeBudget]_vars

\* C21 witness: stats swept an expired entry and counts the ones left
C21_Witness ==
    /\ last.op = "stats"
    /\ last.swept > 0
    /\ last.entry_count > 0

RECURSIVE SumCounts(_, _)
\* the sum of the values of a predicate_counts histogram over the keys S
SumCounts(counts, S) ==
    IF S = {} THEN 0
    ELSE LET p == CHOOSE x \in S : TRUE
         IN  counts[p] + SumCounts(counts, S \ {p})

\* C30: stats reports entry_count equal to the number of stored entries
\* that have not expired, token_budget_used equal to the sum of their
\* minimized_tokens, token_budget_remaining equal to token_budget minus
\* token_budget_used and never negative, and predicate_counts that sum to
\* entry_count.
C30_StatsConsistent ==
    last.op = "stats" =>
        /\ last.entry_count = Len(Live(entries, now))
        /\ last.token_budget_used = SumTokens(Live(entries, now))
        /\ last.token_budget_remaining
               = last.token_budget - last.token_budget_used
        /\ last.token_budget_remaining >= 0
        /\ SumCounts(last.predicate_counts, DOMAIN last.predicate_counts)
               = last.entry_count

(***************************************************************************)
(* SpecConcurrentWrites: writes of two coroutines of one event loop and of *)
(* a second thread, within the TTL of the first entry                      *)
(***************************************************************************)
\* two of the first and one of the second fill max_tokens exactly
ConcurrentContents == {Text(40, 1), Text(20, 1)}

WNext ==
    \/ \E c \in AllCallers, t \in ConcurrentContents, m \in BOOLEAN :
          \/ WriteSync(c, "A", "observed", t, m)
          \/ WriteBegin(c, "A", "observed", t)
    \/ \E c \in AllCallers, a \in {"text", "raises"},
          o \in CompressorOutputs :
          WriteEnd(c, a, o)

\* a write that returns stores its entry under a fresh id and keeps every
\* entry stored before, when the tokens fit max_tokens together
WriteKeepsAll ==
    last'.op = "write" =>
        /\ last'.success
        /\ \E i \in DOMAIN entries' : entries'[i].id = last'.entry
        /\ LET new == EntryOf(entries', last'.entry)
           IN  /\ new.id \notin Ids(entries)
               /\ SumTokens(entries) + new.minimized_tokens <= max_tokens
                      => entries' = Append(entries, new)

\* C24: concurrent writes with valid predicates whose tokens fit within
\* max_tokens all return success, and each adds exactly one entry of its
\* own: no entry is lost, overwritten or stored twice.
C24_ConcurrentWritesAllStored ==
    /\ [][WriteKeepsAll]_vars
    /\ [](\A i, j \in DOMAIN entries :
              entries[i].id = entries[j].id => i = j)

\* C24 witness: a write returned while another was suspended in the
\* locked region, and every write that returned so far has its entry
C24_Witness ==
    /\ last.op = "write"
    /\ last.success
    /\ InLockedRegion # {}
    /\ Len(entries) >= 2
    /\ Len(entries) = nextId - 1

(***************************************************************************)
(* SpecReadFilter: one coroutine reads with every combination of filters   *)
(* while a second thread writes                                            *)
(***************************************************************************)
FNext ==
    \/ Tick
    \/ \E w \in {<<"A", "observed">>, <<"B", "inferred">>} :
          WriteSync("c3", w[1], w[2], Text(30, 1), FALSE)
    \/ \E s \in {"A", NoSubject}, p \in {"inferred", NoPredicate},
          e \in BOOLEAN :
          Read("c1", s, p, e)
    \/ \E o \in ExpanderOutputs : ReadResume("c1", "raises", o)

(***************************************************************************)
(* SpecReaders: two coroutines read with enrichment while a second thread  *)
(* writes; the expander answers differently from one call to the next      *)
(***************************************************************************)
ReaderExpanderOutputs == {Text(80, 1), Text(70, 1)}

DNext ==
    \/ WriteSync("c3", "A", "observed", Text(40, 1), FALSE)
    \/ \E c \in Callers : Read(c, NoSubject, NoPredicate, TRUE)
    \/ \E c \in Callers, a \in {"text", "raises"},
          o \in ReaderExpanderOutputs :
          ReadResume(c, a, o)

\* the ids of the stored entries a read with these filters is to return
\* at instant t
Wanted(es, subject, predicate, t) ==
    {es[i].id : i \in
        {j \in DOMAIN es :
            /\ ~(es[j].expires_at < t)
            /\ subject # NoSubject => es[j].subject = subject
            /\ predicate # NoPredicate => es[j].predicate = predicate}}

\* the query of the read that was called in this step: of the result when
\* the read returned at once, of the suspended call otherwise
ReadCalled ==
    \/ last'.op = "read" /\ pc' = pc
    \/ last'.op = "read_begin"

QueryCalled ==
    IF last'.op = "read"
    THEN [subject |-> last'.subject, predicate |-> last'.predicate,
          ids |-> last'.entries]
    ELSE [subject |-> req'[last'.caller].q.subject,
          predicate |-> req'[last'.caller].q.predicate,
          ids |-> req'[last'.caller].q.ids]

\* what the filter of a read finds, against the entries stored before the
\* call
ReadFindsExactly ==
    ReadCalled =>
        LET q == QueryCalled
        IN  /\ {q.ids[i] : i \in DOMAIN q.ids}
                   = Wanted(entries, q.subject, q.predicate, now)
            /\ \A i, j \in DOMAIN q.ids : q.ids[i] = q.ids[j] => i = j
            /\ \A i, j \in DOMAIN q.ids :
                   i < j => EntryOf(entries, q.ids[i]).created_at
                               >= EntryOf(entries, q.ids[j]).created_at

\* C25: read returns exactly the stored entries that have not expired and
\* match the subject and predicate filters that are given, newest first by
\* created_at, and total is the number of entries returned.
C25_ReadFiltersAndOrders ==
    /\ [][ReadFindsExactly]_vars
    /\ [](last.op = "read" => last.total = Len(last.entries))

\* C25 witness: a read with a predicate filter returns two entries of
\* different created_at and leaves out a stored entry of another predicate
C25_Witness ==
    /\ last.op = "read"
    /\ last.predicate = "inferred"
    /\ last.total = 2
    /\ Len(entries) = 3
    /\ \A i \in DOMAIN last.entries : last.entries[i] \in Ids(entries)
    /\ EntryOf(entries, last.entries[1]).created_at
           > EntryOf(entries, last.entries[2]).created_at

\* C26: in a read with enrich on, an entry that the expander did not
\* expand is returned with its content as text and is not counted;
\* enriched_count is the number of returned entries that were expanded.
C26_EnrichedCountCountsExpansions ==
    (last.op = "read" /\ last.enrich) =>
        /\ \A i \in DOMAIN last.texts :
               ~last.expanded[i] => last.texts[i] = last.contents[i]
        /\ last.enriched_count
               = Cardinality({i \in DOMAIN last.expanded : last.expanded[i]})

\* the expansion cached for an entry stays what it is while the entry is
\* stored
ExpansionKept ==
    \A id \in DOMAIN cache :
        id \in Ids(entries') => id \in DOMAIN cache' /\ cache'[id] = cache[id]

\* C27: once the expander has expanded an entry, every later read with
\* enrich on returns that expansion, without another call of the
\* expander, for as long as the entry is stored.
C27_ExpansionReused ==
    /\ [][ExpansionKept]_vars
    /\ [](last.op = "read" /\ last.enrich =>
              \A i \in DOMAIN last.entries :
                  (last.expanded[i] /\ last.entries[i] \in DOMAIN cache)
                      => last.texts[i] = cache[last.entries[i]])

(***************************************************************************)
(* SpecClear: clear with every combination of its filters, on entries of   *)
(* two subjects and several ages, some with a cached expansion            *)
(***************************************************************************)
KNext ==
    \/ Tick
    \/ \E w \in {<<"A", "observed">>, <<"B", "inferred">>} :
          WriteSync("c2", w[1], w[2], Text(30, 1), FALSE)
    \/ Read("c1", NoSubject, NoPredicate, TRUE)
    \/ \E o \in ExpanderOutputs : ReadResume("c1", "text", o)
    \/ \E s \in {"A", NoSubject}, a \in AgeArgs : Clear("c2", s, a)

\* the entries of es that are not of subject
OfOtherSubjects(es, subject) == SelectSeq(es, LAMBDA e : e.subject # subject)

\* clear(subject=A) without an age filter
ClearsSubjectOnly ==
    (/\ last'.op = "clear"
     /\ last'.subject # NoSubject
     /\ last'.older_than_minutes = NoAge) =>
        /\ entries' = OfOtherSubjects(entries, last'.subject)
        /\ last'.cleared_count = Len(entries) - Len(entries')

\* C28: clear(subject=A) with no age filter removes every stored entry of
\* subject A and no other, leaves the entries of the other subjects as
\* they are, and returns the number of entries removed as cleared_count.
C28_ClearBySubject == [][ClearsSubjectOnly]_vars

\* C28 witness: clear(subject="A") removed an entry and left one of B
C28_Witness ==
    /\ last.op = "clear"
    /\ last.subject = "A"
    /\ last.older_than_minutes = NoAge
    /\ last.cleared_count >= 1
    /\ \E i \in DOMAIN entries : entries[i].subject = "B"

\* clear without filters, and clear with a filter
ClearsAllOrMatching ==
    last'.op = "clear" =>
        LET subject == last'.subject
            age == last'.older_than_minutes
            removed == {i \in DOMAIN entries :
                            entries[i].id \notin Ids(entries')}
        IN  /\ (subject = NoSubject /\ age = NoAge) =>
                   /\ entries' = <<>>
                   /\ last'.cleared_count = Len(entries)
            /\ \A i \in removed : entries[i].id \notin DOMAIN cache'
            /\ (subject # NoSubject \/ age # NoAge) =>
                   /\ \A i \in removed :
                          \/ subject # NoSubject
                               /\ entries[i].subject = subject
                          \/ age # NoAge
                               /\ entries[i].created_at < now - age
                   /\ entries' = SelectSeq(entries, LAMBDA e :
                                               e.id \in Ids(entries'))

\* C29: clear() with neither filter removes every stored entry with its
\* cached expansion and returns the number of entries stored before as
\* cleared_count; with a filter it removes only entries of the subject or
\* older than the cutoff.
C29_ClearAllOrFiltered == [][ClearsAllOrMatching]_vars

\* C29 witness: clear(older_than_minutes=1) removed an entry and kept a
\* younger one
C29_Witness ==
    /\ last.op = "clear"
    /\ last.subject = NoSubject
    /\ last.older_than_minutes = 1
    /\ last.cleared_count >= 1
    /\ entries # <<>>

(***************************************************************************)
(* The singleton: get_scratchpad_store and reset_scratchpad_store, called  *)
(* from several threads                                                    *)
(***************************************************************************)
MThreads == {"t1", "t2"}

\* _scratchpad_store = None; a store is named by its place in instances
NoStore == 0

\* ScratchpadStore(): a store without entries; by is the function that
\* constructed it
NewStore(by) == [by |-> by, entries |-> 0]

MInit ==
    /\ scratchpad_store = NoStore
    /\ scratchpad_lock = NoThread
    /\ instances = <<>>
    /\ resets = 0
    /\ mpc = [t \in MThreads |-> "idle"]
    /\ returns = {}

\* mutant of SecondCheck: the store is not looked at again under the lock
SecondCheckSkipped(s) == TRUE

\* the inner 'if _scratchpad_store is None', under the lock
SecondCheck(s) == s = NoStore

\* the outer 'if _scratchpad_store is None', read without the lock
GetFirstCheck(t) ==
    /\ mpc[t] = "idle"
    /\ mpc' = [mpc EXCEPT ![t] = IF scratchpad_store = NoStore
                                 THEN "checked" ELSE "leaving"]
    /\ UNCHANGED <<scratchpad_store, scratchpad_lock, instances, resets,
                   returns, svars, gvars>>

\* with _scratchpad_lock: the thread waits until the lock is free
GetAcquire(t) ==
    /\ mpc[t] = "checked"
    /\ scratchpad_lock = NoThread
    /\ scratchpad_lock' = t
    /\ mpc' = [mpc EXCEPT ![t] = "locked"]
    /\ UNCHANGED <<scratchpad_store, instances, resets, returns, svars,
                   gvars>>

\* the second check, the construction, and the release of the lock
GetConstruct(t) ==
    /\ mpc[t] = "locked"
    /\ IF SecondCheck(scratchpad_store)
       THEN /\ instances' = Append(instances, NewStore("get"))
            /\ scratchpad_store' = Len(instances) + 1
       ELSE UNCHANGED <<instances, scratchpad_store>>
    /\ scratchpad_lock' = NoThread
    /\ mpc' = [mpc EXCEPT ![t] = "leaving"]
    /\ UNCHANGED <<resets, returns, svars, gvars>>

\* return _scratchpad_store: the global is read once more
GetReturn(t) ==
    /\ mpc[t] = "leaving"
    /\ returns' = returns \cup {[store |-> scratchpad_store,
                                 resets |-> resets, thread |-> t]}
    /\ mpc' = [mpc EXCEPT ![t] = "idle"]
    /\ UNCHANGED <<scratchpad_store, scratchpad_lock, instances, resets,
                   svars, gvars>>

\* reset_scratchpad_store: with _scratchpad_lock
ResetAcquire(t) ==
    /\ mpc[t] = "idle"
    /\ resets + Cardinality({u \in MThreads : mpc[u] = "resetting"})
           < MaxResets
    /\ scratchpad_lock = NoThread
    /\ scratchpad_lock' = t
    /\ mpc' = [mpc EXCEPT ![t] = "resetting"]
    /\ UNCHANGED <<scratchpad_store, instances, resets, returns, svars,
                   gvars>>

\* _scratchpad_store = ScratchpadStore(), and the release of the lock
ResetAssign(t) ==
    /\ mpc[t] = "resetting"
    /\ instances' = Append(instances, NewStore("reset"))
    /\ scratchpad_store' = Len(instances) + 1
    /\ resets' = resets + 1
    /\ scratchpad_lock' = NoThread
    /\ mpc' = [mpc EXCEPT ![t] = "idle"]
    /\ UNCHANGED <<returns, svars, gvars>>

\* a thread writes an entry to a store that get_scratchpad_store returned
\* to it earlier
StoreWrite(t) ==
    /\ mpc[t] = "idle"
    /\ \E r \in returns :
           /\ r.thread = t
           /\ instances[r.store].entries < MaxStoreWrites
           /\ instances' = [instances EXCEPT ![r.store].entries = @ + 1]
    /\ UNCHANGED <<scratchpad_store, scratchpad_lock, resets, mpc, returns,
                   svars, gvars>>

\* SpecSingleton: the threads' calls, step by step
LNext ==
    \/ \E t \in MThreads : GetFirstCheck(t)
    \/ \E t \in MThreads : GetAcquire(t)
    \/ \E t \in MThreads : GetConstruct(t)
    \/ \E t \in MThreads : GetReturn(t)
    \/ \E t \in MThreads : ResetAcquire(t)
    \/ \E t \in MThreads : ResetAssign(t)
    \/ \E t \in MThreads : StoreWrite(t)

\* the stores that get_scratchpad_store constructed
ConstructedByGet ==
    {i \in DOMAIN instances : instances[i].by = "get"}

\* C32: get_scratchpad_store never returns None and constructs at most one
\* store, also when several threads make the first call at once; two
\* calls that return with no reset between them return the same store;
\* calls that return after a reset return a store that no call returned
\* before the reset, and that store starts without entries.
C32_SingletonUntilReset ==
    /\ Cardinality(ConstructedByGet) <= 1
    /\ \A r \in returns : r.store # NoStore
    /\ \A r1, r2 \in returns :
           (r1.resets = r2.resets) <=> (r1.store = r2.store)
    /\ (/\ scratchpad_store # NoStore
        /\ \A r \in returns : r.store # scratchpad_store)
           => instances[scratchpad_store].entries = 0

\* C32 witness: both threads passed the first check before a store
\* existed, both have returned, and a call returned after a reset while
\* the store of before the reset holds an entry
C32_Witness ==
    /\ \E r1, r2 \in returns :
           /\ r1.thread # r2.thread
           /\ r1.resets = 0 /\ r2.resets = 0
           /\ instances[r1.store].by = "get"
           /\ instances[r1.store].entries > 0
    /\ \E r \in returns : r.resets > 0 /\ r.store = scratchpad_store
    /\ Len(instances) = 2

\* the fields of a stored entry that are set once, at its creation
Created(e) ==
    [id |-> e.id, subject |-> e.subject, predicate |-> e.predicate,
     object_ |-> e.object_, content |-> e.content,
     original_tokens |-> e.original_tokens,
     minimized_tokens |-> e.minimized_tokens,
     created_at |-> e.created_at, expires_at |-> e.expires_at]

\* C34: a stored entry's subject, predicate, object, content,
\* original_tokens, minimized_tokens, created_at and expires_at never
\* change; enriched_content changes only in a read; and an entry leaves the
\* store only through the TTL sweep (it has expired), through clear (its
\* filter selects it) or through the budget eviction of a write that stores.
C34_EntriesImmutable ==
    [][\A i \in DOMAIN entries :
           LET e == entries[i]
           IN  IF e.id \in Ids(entries')
               THEN \E j \in DOMAIN entries' :
                        /\ Created(entries'[j]) = Created(e)
                        /\ entries'[j].enriched_content # e.enriched_content
                               => last'.op \in {"read", "read_resume"}
               ELSE \/ IsExpired(e, now)
                    \/ /\ last'.op = "clear"
                       /\ ShouldClear(e, last'.subject,
                                      last'.older_than_minutes, now)
                    \/ /\ last'.op = "write"
                       /\ last'.evicted > 0
                       /\ nextId' = nextId + 1
    ]_vars

\* C34 witness: a write evicted an entry while a stored entry carries the
\* expansion a read gave it, its content being what was written
C34_Witness ==
    /\ last.op = "write"
    /\ last.evicted > 0
    /\ \E i \in DOMAIN entries :
           /\ entries[i].enriched_content = Text(80, 1)
           /\ entries[i].content = Text(40, 1)

\* C36: every key of the enrichment cache is the id of an entry that is
\* stored: no expansion stays cached for an entry that was removed, and
\* none is cached for an entry after its removal.
C36_CacheKeysAreStored == DOMAIN cache \subseteq Ids(entries)

(***************************************************************************)
(* SpecCallsReturn: the calls of two coroutines of one event loop and of a *)
(* second thread, each of which may have to wait for the lock              *)
(***************************************************************************)
LockedCalls == {"write", "read", "clear", "stats", "get_context_for_injection"}

\* c1 and c2 write, c2 also reads; c3, on the other thread, writes, clears
\* and reports
Writers == AllCallers
Readers == {"c2"}
Clearers == {"c3"}
Reporters == {"c3"}

CallsOf(c) ==
    {call \in LockedCalls :
        \/ call = "write" /\ c \in Writers
        \/ call = "read" /\ c \in Readers
        \/ call = "clear" /\ c \in Clearers
        \/ call \in {"stats", "get_context_for_injection"}
               /\ c \in Reporters}

VNext ==
    \/ \E c \in AllCallers : \E call \in CallsOf(c) : Block(c, call)
    \/ \E c \in Writers : WriteBegin(c, "A", "observed", Text(40, 1))
    \/ \E c \in AllCallers, a \in {"text", "raises"},
          o \in CompressorOutputs : WriteEnd(c, a, o)
    \/ \E c \in Reporters :
          WriteSync(c, "A", "observed", Text(40, 1), FALSE)
    \/ \E c \in Readers : Read(c, NoSubject, NoPredicate, TRUE)
    \/ \E c \in AllCallers, a \in {"text", "raises"},
          o \in ExpanderOutputs : ReadResume(c, a, o)
    \/ \E c \in Clearers : Clear(c, NoSubject, NoAge)
    \/ \E c \in Reporters : ScratchpadStats(c)
    \/ \E c \in Reporters : GetContextForInjection(c, NoBudget)

\* the awaited compressor call of c returns or raises
CompressorReturns(c) ==
    \E a \in {"text", "raises"}, o \in CompressorOutputs : WriteEnd(c, a, o)

\* the awaited expander call of c returns or raises
ExpanderReturns(c) ==
    \E a \in {"text", "raises"}, o \in ExpanderOutputs : ReadResume(c, a, o)

\* a call that waited for the lock takes it and goes on
Proceeds(c) ==
    /\ pc[c] = "blocked"
    /\ \/ WriteBegin(c, "A", "observed", Text(40, 1))
       \/ WriteSync(c, "A", "observed", Text(40, 1), FALSE)
       \/ Read(c, NoSubject, NoPredicate, TRUE)
       \/ Clear(c, NoSubject, NoAge)
       \/ ScratchpadStats(c)
       \/ GetContextForInjection(c, NoBudget)

\* every external call returns or raises once its coroutine can run, and
\* a thread that waits for the lock gets it once the lock stays free
\* the next step of a call in progress; which of the three it is depends
\* on where the caller is
Continues(c) == CompressorReturns(c) \/ ExpanderReturns(c) \/ Proceeds(c)

CallsReturnFairness == \A c \in AllCallers : WF_vars(Continues(c))

EmptyDict == [k \in {} |-> ""]
None == <<>>
Some(d) == <<d>>
Null == <<>>

Put(f, k, v) == [x \in DOMAIN f \cup {k} |-> IF x = k THEN v ELSE f[x]]

\* dict.update, and the attribute update of add_node / add_edge
Merge(f, g) ==
    [k \in DOMAIN f \cup DOMAIN g |-> IF k \in DOMAIN g THEN g[k] ELSE f[k]]

\* the truth value of an Optional[dict]: None and {} are false
Truthy(md) == md # None /\ DOMAIN md[1] # {}

\* json.dumps(metadata) if metadata else None
EncodeMetadata(md) == IF Truthy(md) THEN <<md[1]>> ELSE Null

\* json.loads(row["metadata"]) if row["metadata"] else None
DecodeMetadata(col) == IF col # Null THEN Some(col[1]) ELSE None

\* json.loads(row["metadata"]) if row["metadata"] else {}
DecodeMetadataForLoad(col) == IF col # Null THEN col[1] ELSE EmptyDict

Entity(id, entity_type, name, metadata) ==
    [id |-> id, entity_type |-> entity_type, name |-> name,
     metadata |-> metadata]

Relationship(subject, predicate, object, metadata) ==
    [subject |-> subject, predicate |-> predicate, object |-> object,
     metadata |-> metadata]

Triple(r) == <<r.subject, r.predicate, r.object>>

\* the entities and relationships the callers add
EntityInputs ==
    {Entity("A", "robot", "Atlas", None),
     Entity("A", "sensor", "Argus", Some([k |-> "v"])),
     Entity("B", "sensor", "Bolt", Some(EmptyDict))}
RelationshipInputs ==
    {Relationship("A", "depends_on", "B", None),
     Relationship("A", "depends_on", "B", Some([k |-> "v"])),
     Relationship("A", "contains", "B", None),
     Relationship("B", "depends_on", "A", Some([k |-> "w"]))}

\* a call meets no storage fault, or sqlite3.Error is raised by the INSERT,
\* or by the commit with the transaction left open (database is locked),
\* or by the commit with the transaction rolled back by SQLite
Faults == {"none", "insert", "commit_open", "commit_rollback"}

(***************************************************************************)
(* GraphStore: the tables                                                  *)
(***************************************************************************)
EmptyTables == [entities |-> EmptyDict, triplets |-> <<>>]

\* INSERT OR REPLACE INTO entities
InsertOrReplaceEntity(d, e) ==
    [d EXCEPT !.entities =
        Put(d.entities, e.id,
            [entity_type |-> e.entity_type, name |-> e.name,
             metadata |-> EncodeMetadata(e.metadata)])]

\* the UNIQUE(subject, predicate, object) constraint finds the triple
HasTriple(d, r) ==
    \E i \in DOMAIN d.triplets : Triple(d.triplets[i]) = Triple(r)

\* mutant of InsertOrIgnoreTriplet: a plain INSERT without the constraint
InsertTriplet(d, r) ==
    [d EXCEPT !.triplets =
        Append(d.triplets,
               [subject |-> r.subject, predicate |-> r.predicate,
                object |-> r.object,
                metadata |-> EncodeMetadata(r.metadata)])]

\* INSERT OR IGNORE INTO triplets
InsertOrIgnoreTriplet(d, r) ==
    IF HasTriple(d, r) THEN d
    ELSE [d EXCEPT !.triplets =
             Append(d.triplets,
                    [subject |-> r.subject, predicate |-> r.predicate,
                     object |-> r.object,
                     metadata |-> EncodeMetadata(r.metadata)])]

\* cursor.rowcount after the INSERT OR IGNORE
RowCount(d, r) == IF HasTriple(d, r) THEN 0 ELSE 1

(***************************************************************************)
(* GraphStore: the in-memory graph                                         *)
(***************************************************************************)
EmptyGraph == [nodes |-> EmptyDict, edges |-> EmptyDict]

NodeAttrs(G, id) == IF id \in DOMAIN G.nodes THEN G.nodes[id] ELSE EmptyDict

\* DiGraph.add_node(id, **attrs): the attributes of an existing node are
\* updated, not replaced
AddNode(G, id, attrs) ==
    [G EXCEPT !.nodes = Put(G.nodes, id, Merge(NodeAttrs(G, id), attrs))]

\* DiGraph.add_edge(u, v, **attrs): one edge per ordered pair of nodes;
\* missing end nodes are created without attributes
AddEdge(G, u, v, attrs) ==
    LET withU == AddNode(G, u, EmptyDict)
        withV == AddNode(withU, v, EmptyDict)
        old == IF <<u, v>> \in DOMAIN G.edges THEN G.edges[<<u, v>>]
               ELSE EmptyDict
    IN  [withV EXCEPT !.edges = Put(G.edges, <<u, v>>, Merge(old, attrs))]

\* the node update of add_entity (lines 167-170)
MirrorEntity(G, e) ==
    AddNode(G, e.id,
            Merge([entity_type |-> e.entity_type, name |-> e.name],
                  IF Truthy(e.metadata) THEN e.metadata[1] ELSE EmptyDict))

\* the edge update of add_relationship (lines 202-205)
MirrorRelationship(G, r) ==
    AddEdge(G, r.subject, r.object,
            Merge([predicate |-> r.predicate],
                  IF Truthy(r.metadata) THEN r.metadata[1] ELSE EmptyDict))

RECURSIVE LoadNodes(_, _, _)
LoadNodes(G, ents, ids) ==
    IF ids = {} THEN G
    ELSE LET id == CHOOSE x \in ids : TRUE
             row == ents[id]
         IN  LoadNodes(AddNode(G, id,
                           Merge([entity_type |-> row.entity_type,
                                  name |-> row.name],
                                 DecodeMetadataForLoad(row.metadata))),
                       ents, ids \ {id})

RECURSIVE LoadEdges(_, _)
LoadEdges(G, rows) ==
    IF rows = <<>> THEN G
    ELSE LET row == Head(rows)
         IN  LoadEdges(AddEdge(G, row.subject, row.object,
                           Merge([predicate |-> row.predicate],
                                 DecodeMetadataForLoad(row.metadata))),
                       Tail(rows))

\* _load_graph on a fresh DiGraph: the entities, then the triplets in the
\* order of their rowids
LoadGraph(d) ==
    LoadEdges(LoadNodes(EmptyGraph, d.entities, DOMAIN d.entities),
              d.triplets)

\* GraphStore.stats: entity_count and relationship_count (lines 615-616)
EntityCount(G) == Cardinality(DOMAIN G.nodes)
RelationshipCount(G) == Cardinality(DOMAIN G.edges)

(***************************************************************************)
(* GraphStore: state                                                       *)
(***************************************************************************)
GThreads == {"t1", "t2"}
GIdle == [at |-> "idle"]

GInit ==
    /\ db = EmptyTables
    /\ disk = EmptyTables
    /\ graph = EmptyGraph
    /\ nfaults = 0
    /\ acked = [entities |-> {}, triples |-> {}, latest |-> EmptyDict]
    /\ gpc = [t \in GThreads |-> GIdle]
    /\ glast = [op |-> "init"]

faulted == nfaults > 0

\* a fault may occur while the behaviour has faults left
MayFault(fault) == fault = "none" \/ nfaults < MaxFaults

CountFault(fault) == IF fault = "none" THEN nfaults ELSE nfaults + 1

\* what the connection sees after cursor.execute and self._conn.commit(),
\* when the statement alone would have turned the tables d into stmt
ViewAfter(d, dk, stmt, fault) ==
    CASE fault = "none" -> stmt
      [] fault = "insert" -> d
      [] fault = "commit_open" -> stmt
      [] fault = "commit_rollback" -> dk

\* what the file holds after them: a commit that succeeds writes the whole
\* open transaction
FileAfter(d, dk, stmt, fault) == IF fault = "none" THEN stmt ELSE dk

(***************************************************************************)
(* GraphStore.add_entity                                                   *)
(***************************************************************************)
AddEntityResult(e, fault) ==
    [op |-> "add_entity", entity |-> e, fault |-> fault,
     result |-> (fault = "none")]

\* the calls that returned true: the rows they wrote, and per id the entity
\* of the most recent one
AckEntity(a, d, e) ==
    [a EXCEPT !.entities = @ \cup {<<e.id, d.entities[e.id]>>},
              !.latest = Put(@, e.id, e)]

\* add_entity as one step: no await lies between its statements
AddEntity(e, fault) ==
    /\ MayFault(fault)
    /\ \A t \in GThreads : gpc[t] = GIdle
    /\ LET stmt == InsertOrReplaceEntity(db, e)
       IN  /\ db' = ViewAfter(db, disk, stmt, fault)
           /\ disk' = FileAfter(db, disk, stmt, fault)
           /\ graph' = IF fault = "none" THEN MirrorEntity(graph, e)
                       ELSE graph
           /\ acked' = IF fault = "none" THEN AckEntity(acked, stmt, e)
                       ELSE acked
    /\ nfaults' = CountFault(fault)
    /\ glast' = AddEntityResult(e, fault)
    /\ UNCHANGED <<gpc, svars, mvars>>

(***************************************************************************)
(* GraphStore.add_relationship                                             *)
(***************************************************************************)
\* return cursor.rowcount > 0, or False from the except branch
ReturnOfAdd(rowcount, fault) == fault = "none" /\ rowcount > 0

\* the result, with what the properties need of the state before the
\* call: whether the triple was stored, relationship_count, and whether
\* this is the second of two adds in a row of one relationship that was
\* not stored before the first (base_count is the count before the first)
AddRelationshipResult(r, fault, d, G, prev) ==
    LET second == /\ prev.op = "add_relationship"
                  /\ prev.rel = r
                  /\ prev.fault = "none" /\ fault = "none"
                  /\ ~prev.stored_before
    IN  [op |-> "add_relationship", rel |-> r, fault |-> fault,
         result |-> ReturnOfAdd(RowCount(d, r), fault),
         stored_before |-> HasTriple(d, r),
         count_before |-> RelationshipCount(G),
         second |-> second,
         base_count |-> IF second THEN prev.count_before
                        ELSE RelationshipCount(G)]

AckTriple(a, r, result) ==
    IF result THEN [a EXCEPT !.triples = @ \cup {Triple(r)}] ELSE a

\* add_relationship as one step: no await lies between its statements
AddRelationship(r, fault) ==
    /\ MayFault(fault)
    /\ \A t \in GThreads : gpc[t] = GIdle
    /\ LET stmt == InsertOrIgnoreTriplet(db, r)
       IN  /\ db' = ViewAfter(db, disk, stmt, fault)
           /\ disk' = FileAfter(db, disk, stmt, fault)
           /\ graph' = IF fault = "none" THEN MirrorRelationship(graph, r)
                       ELSE graph
    /\ nfaults' = CountFault(fault)
    /\ glast' = AddRelationshipResult(r, fault, db, graph, glast)
    /\ acked' = AckTriple(acked, r, glast'.result)
    /\ UNCHANGED <<gpc, svars, mvars>>

(***************************************************************************)
(* GraphStore.stats                                                        *)
(***************************************************************************)
CountRows(rows, pred) == Cardinality({i \in DOMAIN rows : rows[i].predicate = pred})

\* SELECT ... GROUP BY over the tables, the two counts from the graph
Stats(t) ==
    /\ gpc[t] = GIdle
    /\ glast' =
           [op |-> "stats",
            entity_count |-> EntityCount(graph),
            relationship_count |-> RelationshipCount(graph),
            entity_types |->
                [ty \in {db.entities[id].entity_type : id \in DOMAIN db.entities}
                    |-> Cardinality({id \in DOMAIN db.entities :
                                        db.entities[id].entity_type = ty})],
            predicate_counts |->
                [pr \in {db.triplets[i].predicate : i \in DOMAIN db.triplets}
                    |-> CountRows(db.triplets, pr)]]
    /\ UNCHANGED <<db, disk, graph, nfaults, acked, gpc, svars, mvars>>

(***************************************************************************)
(* GraphStore.get_entity                                                   *)
(***************************************************************************)
QueryIds == {"A", "B", "C", "D"}

\* SELECT ... FROM entities WHERE id = ?; None, or the Entity built from
\* the row (lines 232-241)
GetEntityResult(d, entity_id) ==
    IF entity_id \notin DOMAIN d.entities THEN None
    ELSE LET row == d.entities[entity_id]
         IN  Some(Entity(entity_id, row.entity_type, row.name,
                         DecodeMetadata(row.metadata)))

\* get_entity; after_add is the entity of an add_entity that returned true
\* right before this call
GetEntity(entity_id) ==
    /\ \A t \in GThreads : gpc[t] = GIdle
    /\ glast' =
           [op |-> "get_entity", id |-> entity_id,
            result |-> GetEntityResult(db, entity_id),
            after_add |-> IF glast.op = "add_entity" /\ glast.result
                          THEN Some(glast.entity) ELSE None]
    /\ UNCHANGED <<db, disk, graph, nfaults, acked, gpc, svars, mvars>>

(***************************************************************************)
(* GraphStore.get_neighbors                                                *)
(***************************************************************************)
Directions == {"outgoing", "incoming", "both"}

Successors(G, v) == {w \in DOMAIN G.nodes : <<v, w>> \in DOMAIN G.edges}
Predecessors(G, v) == {w \in DOMAIN G.nodes : <<w, v>> \in DOMAIN G.edges}

\* list(a set): the elements once each, in an order of the set's choosing
RECURSIVE ListOf(_)
ListOf(S) ==
    IF S = {} THEN <<>>
    ELSE LET x == CHOOSE y \in S : TRUE IN <<x>> \o ListOf(S \ {x})

\* mutant of NeighborSet: 'both' answered with the successors only
NeighborSetOutgoingOnly(G, entity_id, direction) ==
    IF direction \in {"outgoing", "both"} /\ entity_id \in DOMAIN G.nodes
    THEN Successors(G, entity_id)
    ELSE IF direction = "incoming" /\ entity_id \in DOMAIN G.nodes
    THEN Predecessors(G, entity_id)
    ELSE {}

\* the set built by lines 345-355
NeighborSet(G, entity_id, direction) ==
    LET out == IF direction \in {"outgoing", "both"}
                  /\ entity_id \in DOMAIN G.nodes
               THEN Successors(G, entity_id) ELSE {}
        inc == IF direction \in {"incoming", "both"}
                  /\ entity_id \in DOMAIN G.nodes
               THEN Predecessors(G, entity_id) ELSE {}
    IN  out \cup inc

GetNeighbors(entity_id, direction) ==
    /\ \A t \in GThreads : gpc[t] = GIdle
    /\ glast' =
           [op |-> "get_neighbors", id |-> entity_id,
            direction |-> direction,
            result |-> ListOf(NeighborSet(graph, entity_id, direction))]
    /\ UNCHANGED <<db, disk, graph, nfaults, acked, gpc, svars, mvars>>

(***************************************************************************)
(* GraphStore.shortest_path                                                *)
(***************************************************************************)
\* the predecessor of the source and the successor of the target in the
\* search's maps (None in networkx)
NoPred == "None"

\* mutant of Adjacent: the directed graph is searched, not its undirected
\* view
AdjacentDirected(G, v) == Successors(G, v)

\* the neighbours of v in self._graph.to_undirected()
Adjacent(G, v) == Successors(G, v) \cup Predecessors(G, v)

\* for v in this_level: for w in adjacency of v
RECURSIVE LevelPairs(_, _)
LevelPairs(G, level) ==
    IF level = <<>> THEN <<>>
    ELSE LET v == Head(level)
             ws == ListOf(Adjacent(G, v))
         IN  [i \in 1..Len(ws) |-> <<v, ws[i]>>] \o LevelPairs(G, Tail(level))

\* one level of the search from one side: every unseen neighbour enters
\* the side's map and the next fringe; the search ends at a neighbour
\* the other side has seen
RECURSIVE ScanLevel(_, _, _, _)
ScanLevel(pairs, mine, other, fringe) ==
    IF pairs = <<>> THEN [found |-> None, mine |-> mine, fringe |-> fringe]
    ELSE LET v == Head(pairs)[1]
             w == Head(pairs)[2]
             unseen == w \notin DOMAIN mine
             mine2 == IF unseen THEN Put(mine, w, v) ELSE mine
             fringe2 == IF unseen THEN Append(fringe, w) ELSE fringe
         IN  IF w \in DOMAIN other
             THEN [found |-> Some(w), mine |-> mine2, fringe |-> fringe2]
             ELSE ScanLevel(Tail(pairs), mine2, other, fringe2)

\* networkx's bidirectional breadth-first search: the smaller fringe is
\* expanded; None when a fringe runs empty (NetworkXNoPath)
RECURSIVE BidirectionalPredSucc(_, _, _, _, _)
BidirectionalPredSucc(G, pred, succ, forward_fringe, reverse_fringe) ==
    IF forward_fringe = <<>> \/ reverse_fringe = <<>> THEN None
    ELSE IF Len(forward_fringe) <= Len(reverse_fringe)
    THEN LET r == ScanLevel(LevelPairs(G, forward_fringe), pred, succ, <<>>)
         IN  IF r.found # None
             THEN Some([pred |-> r.mine, succ |-> succ, w |-> r.found[1]])
             ELSE BidirectionalPredSucc(G, r.mine, succ, r.fringe,
                                        reverse_fringe)
    ELSE LET r == ScanLevel(LevelPairs(G, reverse_fringe), succ, pred, <<>>)
         IN  IF r.found # None
             THEN Some([pred |-> pred, succ |-> r.mine, w |-> r.found[1]])
             ELSE BidirectionalPredSucc(G, pred, r.mine, forward_fringe,
                                        r.fringe)

\* from the meeting node back to the source, and on to the target
RECURSIVE ChainBack(_, _)
ChainBack(pred, w) ==
    IF w = NoPred THEN <<>> ELSE Append(ChainBack(pred, pred[w]), w)

RECURSIVE ChainOn(_, _)
ChainOn(succ, w) ==
    IF w = NoPred THEN <<>> ELSE <<w>> \o ChainOn(succ, succ[w])

\* nx.shortest_path(undirected, source, target) for two nodes of the graph
NxShortestPath(G, source, target) ==
    IF source = target THEN Some(<<source>>)
    ELSE LET r == BidirectionalPredSucc(G,
                      Put(EmptyDict, source, NoPred),
                      Put(EmptyDict, target, NoPred),
                      <<source>>, <<target>>)
         IN  IF r = None THEN None
             ELSE Some(ChainBack(r[1].pred, r[1].w)
                           \o Tail(ChainOn(r[1].succ, r[1].w)))

\* mutant of ShortestPathResult: a node that is no graph node is looked up
\* only after the search of x to x has answered
ShortestPathResultNoNodeCheck(G, source, target) ==
    IF source = target THEN Some(<<source>>)
    ELSE IF source \notin DOMAIN G.nodes \/ target \notin DOMAIN G.nodes
    THEN None
    ELSE NxShortestPath(G, source, target)

\* lines 375-386: None for a node that is not in the graph and for
\* NetworkXNoPath
ShortestPathResult(G, source, target) ==
    IF source \notin DOMAIN G.nodes \/ target \notin DOMAIN G.nodes
    THEN None
    ELSE NxShortestPath(G, source, target)

ShortestPath(source, target) ==
    /\ \A t \in GThreads : gpc[t] = GIdle
    /\ glast' =
           [op |-> "shortest_path", source |-> source, target |-> target,
            result |-> ShortestPathResult(graph, source, target)]
    /\ UNCHANGED <<db, disk, graph, nfaults, acked, gpc, svars, mvars>>

(***************************************************************************)
(* GraphStore.get_related and get_subjects                                 *)
(***************************************************************************)
\* predicate: Optional[str] = None; 'if predicate:' takes None and the
\* empty string for no filter
AnyPredicate == ""

\* the Relationship built from a row of the triplets table
RowRelationship(row) ==
    Relationship(row.subject, row.predicate, row.object,
                 DecodeMetadata(row.metadata))

RECURSIVE RowRelationships(_)
RowRelationships(rows) ==
    IF rows = <<>> THEN <<>>
    ELSE <<RowRelationship(Head(rows))>> \o RowRelationships(Tail(rows))

\* SELECT ... FROM triplets WHERE subject = ? [AND predicate = ?]
GetRelatedResult(d, subject, predicate) ==
    RowRelationships(
        SelectSeq(d.triplets,
                  LAMBDA row : /\ row.subject = subject
                               /\ (predicate # AnyPredicate
                                      => row.predicate = predicate)))

\* SELECT ... FROM triplets WHERE object = ? [AND predicate = ?]
GetSubjectsResult(d, object, predicate) ==
    RowRelationships(
        SelectSeq(d.triplets,
                  LAMBDA row : /\ row.object = object
                               /\ (predicate # AnyPredicate
                                      => row.predicate = predicate)))

GetRelated(subject, predicate) ==
    /\ \A t \in GThreads : gpc[t] = GIdle
    /\ glast' = [op |-> "get_related", subject |-> subject,
                 predicate |-> predicate,
                 result |-> GetRelatedResult(db, subject, predicate)]
    /\ UNCHANGED <<db, disk, graph, nfaults, acked, gpc, svars, mvars>>

GetSubjects(object, predicate) ==
    /\ \A t \in GThreads : gpc[t] = GIdle
    /\ glast' = [op |-> "get_subjects", object |-> object,
                 predicate |-> predicate,
                 result |-> GetSubjectsResult(db, object, predicate)]
    /\ UNCHANGED <<db, disk, graph, nfaults, acked, gpc, svars, mvars>>

(***************************************************************************)
(* GraphStore.close, and a new GraphStore on the same database file        *)
(***************************************************************************)
\* GraphStore(db_path): _init_db connects to the file and creates the
\* tables that are missing, _load_graph fills a fresh DiGraph
OpenStore(dk) == [db |-> dk, graph |-> LoadGraph(dk)]

\* store.close() followed by GraphStore(db_path): closing the connection
\* drops the transaction a failed commit left open, the new store sees
\* what the file holds.  The result keeps the closed store's view and
\* graph
Reopen ==
    /\ \A t \in GThreads : gpc[t] = GIdle
    /\ \E st \in {OpenStore(disk)} :
           /\ db' = st.db
           /\ graph' = st.graph
    /\ glast' = [op |-> "reopen", db_before |-> db, graph_before |-> graph]
    /\ UNCHANGED <<disk, nfaults, acked, gpc, svars, mvars>>

\* SpecGraphReopen: adds, with storage faults, and reopening
PNext ==
    \/ \E e \in EntityInputs, f \in Faults : AddEntity(e, f)
    \/ \E r \in RelationshipInputs, f \in Faults : AddRelationship(r, f)
    \/ Reopen

\* SpecGraphRelated: relationships added with storage faults, and the
\* queries that answer from the table and from the graph
ANext ==
    \/ \E r \in RelationshipInputs, f \in Faults : AddRelationship(r, f)
    \/ \E x \in {"A", "B"}, p \in {AnyPredicate, "depends_on"} :
          GetRelated(x, p)
    \/ \E x \in {"A", "B"}, p \in {AnyPredicate, "depends_on"} :
          GetSubjects(x, p)
    \/ \E x \in {"A", "B"}, d \in {"outgoing", "incoming"} :
          GetNeighbors(x, d)

(***************************************************************************)
(* SpecGraphEntity: add_entity and get_entity of one event loop            *)
(* SpecGraphQuery: adds, get_neighbors and shortest_path of one event loop *)
(* whose storage does not fault                                            *)
(***************************************************************************)
ENext ==
    \/ \E e \in EntityInputs, f \in Faults : AddEntity(e, f)
    \/ \E id \in {"A", "B", "C"} : GetEntity(id)

QueryEntityInputs == {Entity("A", "robot", "Atlas", None)}
QueryRelationshipInputs ==
    {Relationship("A", "depends_on", "B", None),
     Relationship("C", "depends_on", "B", None),
     Relationship("D", "contains", "C", None),
     Relationship("A", "contains", "D", None),
     Relationship("B", "depends_on", "A", None)}

QNext ==
    \/ \E e \in QueryEntityInputs : AddEntity(e, "none")
    \/ \E r \in QueryRelationshipInputs : AddRelationship(r, "none")
    \/ \E id \in QueryIds, d \in Directions : GetNeighbors(id, d)
    \/ \E a \in QueryIds, b \in QueryIds : ShortestPath(a, b)

(***************************************************************************)
(* GraphStore.index_schematics                                             *)
(* A string is the sequence of its pieces here, "" is <<>>, an f-string is  *)
(* a concatenation; a schematic is a dict, a key it lacks is not in its     *)
(* DOMAIN.                                                                  *)
(***************************************************************************)
\* dict.get(key, default)
Get(dict, key, default) == IF key \in DOMAIN dict THEN dict[key] ELSE default

\* str.lower and the display names (str.title after str.replace), piece by
\* piece, for the pieces the records hold
LowerOf == [Hydraulic |-> "hydraulic", Sensor |-> "sensor"]
Lower(text) ==
    [i \in DOMAIN text |->
        IF text[i] \in DOMAIN LowerOf THEN LowerOf[text[i]] ELSE text[i]]

TitleOf ==
    [active |-> "Active", deprecated |-> "Deprecated", unknown |-> "Unknown",
     actuators |-> "Actuators", hydraulic_system |-> "Hydraulic System",
     sensor_array |-> "Sensor Array", motor_system |-> "Motor System",
     power_system |-> "Power System", thermal_system |-> "Thermal System",
     lidar_system |-> "Lidar System", vision_system |-> "Vision System",
     communication_system |-> "Communication System",
     safety_system |-> "Safety System",
     manipulation_system |-> "Manipulation System",
     welding_system |-> "Welding System",
     navigation_system |-> "Navigation System"]
        @@ ("heavy-duty" :> "Heavy Duty")
Title(text) ==
    [i \in DOMAIN text |->
        IF text[i] \in DOMAIN TitleOf THEN TitleOf[text[i]] ELSE text[i]]

\* component_keywords, in the order of the dict (lines 486-499)
component_keywords ==
    <<<<"hydraulic", "hydraulic_system">>, <<"sensor", "sensor_array">>,
      <<"motor", "motor_system">>, <<"battery", "power_system">>,
      <<"thermal", "thermal_system">>, <<"lidar", "lidar_system">>,
      <<"camera", "vision_system">>, <<"wireless", "communication_system">>,
      <<"safety", "safety_system">>, <<"gripper", "manipulation_system">>,
      <<"welding", "welding_system">>, <<"navigation", "navigation_system">>>>

\* keyword in text
Contains(text, keyword) == \E i \in DOMAIN text : text[i] = keyword

\* the state index_schematics works on: the store and its own counters
IndexStart(d, G, a) ==
    [db |-> d, graph |-> G, acked |-> a, seen_entities |-> {},
     entities_added |-> 0, relationships_added |-> 0]

\* if await self.add_entity(schematic_entity): entities_added += 1
IndexAddSchematic(st, e) ==
    LET stmt == InsertOrReplaceEntity(st.db, e)
    IN  [st EXCEPT !.db = stmt,
                   !.graph = MirrorEntity(@, e),
                   !.acked = AckEntity(@, stmt, e),
                   !.entities_added = @ + 1]

\* if id not in seen_entities: add_entity, seen_entities.add,
\* entities_added += 1
IndexAddOnce(st, id, entity_type, name) ==
    IF id \in st.seen_entities THEN st
    ELSE LET e == Entity(id, entity_type, name, None)
             stmt == InsertOrReplaceEntity(st.db, e)
         IN  [st EXCEPT !.db = stmt,
                        !.graph = MirrorEntity(@, e),
                        !.acked = AckEntity(@, stmt, e),
                        !.seen_entities = @ \cup {id},
                        !.entities_added = @ + 1]

\* if await self.add_relationship(...): relationships_added += 1
IndexAddRelationship(st, subject, predicate, object) ==
    LET r == Relationship(subject, predicate, object, None)
        added == ReturnOfAdd(RowCount(st.db, r), "none")
    IN  [st EXCEPT !.db = InsertOrIgnoreTriplet(@, r),
                   !.graph = MirrorRelationship(@, r),
                   !.acked = AckTriple(@, r, added),
                   !.relationships_added = @ + (IF added THEN 1 ELSE 0)]

\* step 5: for the keywords, in the dict's order, that the summary or the
\* component contains
RECURSIVE IndexComponents(_, _, _)
IndexComponents(st, schematic_id, hits) ==
    IF hits = <<>> THEN st
    ELSE LET component_id == Head(hits)[2]
             full_component_id == <<"component:", component_id>>
         IN  IndexComponents(
                 IndexAddRelationship(
                     IndexAddOnce(st, full_component_id, "component",
                                  Title(<<component_id>>)),
                     schematic_id, "contains", full_component_id),
                 schematic_id, Tail(hits))

\* step 6: the tags
RECURSIVE IndexTags(_, _, _)
IndexTags(st, schematic_id, tags) ==
    IF tags = <<>> THEN st
    ELSE LET tag_id == <<"tag:">> \o Head(tags)
         IN  IndexTags(IndexAddRelationship(
                           IndexAddOnce(st, tag_id, "tag", Title(Head(tags))),
                           schematic_id, "has_tag", tag_id),
                       schematic_id, Tail(tags))

\* the body of the first loop for one schematic (lines 421-553)
IndexSchematic(st, schematic) ==
    LET schematic_id == schematic.id
        s1 == IndexAddSchematic(st,
                  Entity(schematic_id, "schematic",
                         schematic.model \o <<" - ">> \o schematic.name
                             \o <<": ">> \o schematic.component,
                         Some([model |-> schematic.model,
                               robot_name |-> schematic.name,
                               component |-> schematic.component,
                               version |-> schematic.version])))
        status == Get(schematic, "status", <<"active">>)
        status_id == <<"status:">> \o status
        s2 == IndexAddRelationship(
                  IndexAddOnce(s1, status_id, "status", Title(status)),
                  schematic_id, "has_status", status_id)
        category == Get(schematic, "category", <<"unknown">>)
        category_id == <<"category:">> \o category
        s3 == IndexAddRelationship(
                  IndexAddOnce(s2, category_id, "category", Title(category)),
                  schematic_id, "has_category", category_id)
        model == Get(schematic, "model", <<>>)
        model_id == <<"model:">> \o model
        s4 == IF model # <<>>
              THEN IndexAddRelationship(
                       IndexAddOnce(s3, model_id, "model", model),
                       schematic_id, "belongs_to_model", model_id)
              ELSE s3
        summary == Lower(Get(schematic, "summary", <<>>))
        component_name == Lower(Get(schematic, "component", <<>>))
        s5 == IndexComponents(s4, schematic_id,
                  SelectSeq(component_keywords,
                            LAMBDA kw : \/ Contains(summary, kw[1])
                                        \/ Contains(component_name, kw[1])))
    IN  IndexTags(s5, schematic_id, Get(schematic, "tags", <<>>))

RECURSIVE IndexFirstPass(_, _)
IndexFirstPass(st, schematics) ==
    IF schematics = <<>> THEN st
    ELSE IndexFirstPass(IndexSchematic(st, Head(schematics)),
                        Tail(schematics))

\* model_schematics: the models in the order of their first schematic
RECURSIVE ModelsInOrder(_, _)
ModelsInOrder(schematics, models) ==
    IF schematics = <<>> THEN models
    ELSE LET model == Get(Head(schematics), "model", <<>>)
             known == \E i \in DOMAIN models : models[i] = model
         IN  ModelsInOrder(Tail(schematics),
                           IF model # <<>> /\ ~known
                           THEN Append(models, model) ELSE models)

\* model_schematics[model]: the ids of its schematics, in their order
RECURSIVE SchematicIds(_, _)
SchematicIds(schematics, model) ==
    IF schematics = <<>> THEN <<>>
    ELSE (IF Get(Head(schematics), "model", <<>>) = model
          THEN <<Head(schematics).id>> ELSE <<>>)
             \o SchematicIds(Tail(schematics), model)

\* mutant of IndexCompatibleFrom: the edge from sid2 back to sid1 is left out
RECURSIVE IndexCompatibleOneWay(_, _, _)
IndexCompatibleOneWay(st, sid1, rest) ==
    IF rest = <<>> THEN st
    ELSE IndexCompatibleOneWay(
             IndexAddRelationship(st, sid1, "compatible_with", Head(rest)),
             sid1, Tail(rest))

\* for sid2 in schematic_ids[i + 1:]: both directions (lines 569-580)
RECURSIVE IndexCompatibleFrom(_, _, _)
IndexCompatibleFrom(st, sid1, rest) ==
    IF rest = <<>> THEN st
    ELSE LET sid2 == Head(rest)
             there == IndexAddRelationship(st, sid1, "compatible_with", sid2)
             back == IndexAddRelationship(there, sid2, "compatible_with",
                                          sid1)
         IN  IndexCompatibleFrom(back, sid1, Tail(rest))

\* for i, sid1 in enumerate(schematic_ids)
RECURSIVE IndexCompatibleGroup(_, _)
IndexCompatibleGroup(st, schematic_ids) ==
    IF schematic_ids = <<>> THEN st
    ELSE IndexCompatibleGroup(
             IndexCompatibleFrom(st, Head(schematic_ids),
                                 Tail(schematic_ids)),
             Tail(schematic_ids))

\* the second pass (lines 557-581)
RECURSIVE IndexSecondPass(_, _, _)
IndexSecondPass(st, schematics, models) ==
    IF models = <<>> THEN st
    ELSE IndexSecondPass(
             IndexCompatibleGroup(st, SchematicIds(schematics, Head(models))),
             schematics, Tail(models))

IndexRun(d, G, a, schematics) ==
    IndexSecondPass(IndexFirstPass(IndexStart(d, G, a), schematics),
                    schematics, ModelsInOrder(schematics, <<>>))

\* the returned dict (lines 583-588)
IndexResult(st) ==
    [entities_added |-> st.entities_added,
     relationships_added |-> st.relationships_added,
     total_entities |-> EntityCount(st.graph),
     total_relationships |-> RelationshipCount(st.graph)]

\* index_schematics on one event loop with a storage that does not fault:
\* none of the calls it awaits suspends, every commit succeeds.  The
\* result comes with the batch, the store before the call, and whether the
\* call repeats the call right before it
IndexSchematics(schematics) ==
    /\ \A t \in GThreads : gpc[t] = GIdle
    /\ \E st \in {IndexRun(db, graph, acked, schematics)},
          rerun \in {glast.op = "index_schematics"
                         /\ glast.schematics = schematics} :
           /\ db' = st.db
           /\ disk' = st.db
           /\ graph' = st.graph
           /\ acked' = st.acked
           /\ glast' = [op |-> "index_schematics",
                        schematics |-> schematics,
                        result |-> IndexResult(st),
                        rerun |-> rerun,
                        first_result |-> IF rerun THEN glast.result
                                         ELSE IndexResult(st),
                        db_before |-> db,
                        disk_before |-> disk,
                        graph_before |-> graph]
    /\ UNCHANGED <<nfaults, gpc, svars, mvars>>

(***************************************************************************)
(* SpecGraphIndex: index_schematics on a store that earlier calls filled   *)
(***************************************************************************)
Schematic1 ==
    [id |-> <<"WRN-1">>, model |-> <<"WC-100">>, name |-> <<"Atlas">>,
     component |-> <<"Hydraulic", "arm">>, version |-> <<"1.0">>,
     status |-> <<"active">>, category |-> <<"actuators">>,
     summary |-> <<"arm", "with", "Sensor">>,
     tags |-> <<<<"heavy-duty">>>>]
Schematic2 ==
    [id |-> <<"WRN-2">>, model |-> <<"WC-100">>, name |-> <<"Atlas">>,
     component |-> <<"gripper">>, version |-> <<"2.0">>,
     status |-> <<"deprecated">>, tags |-> <<>>]
Schematic3 ==
    [id |-> <<"WRN-3">>, model |-> <<"WC-100">>, name |-> <<"Titan">>,
     component |-> <<"frame">>, version |-> <<"1.0">>,
     summary |-> <<"hydraulic", "frame">>,
     tags |-> <<<<"heavy-duty">>>>]
Schematic4 ==
    [id |-> <<"WRN-4">>, model |-> <<"WC-200">>, name |-> <<"Nova">>,
     component |-> <<"frame">>, version |-> <<"1.0">>]
Schematic5 ==
    [id |-> <<"WRN-5">>, model |-> <<>>, name |-> <<"Nova">>,
     component |-> <<"frame">>, version |-> <<"1.0">>,
     status |-> <<"active">>]

SchematicBatches ==
    {<<Schematic1, Schematic2, Schematic3>>,
     <<Schematic4, Schematic1, Schematic5, Schematic3>>,
     <<>>}

IndexEntityInputs ==
    {Entity(<<"WRN-1">>, "schematic", <<"old">>,
            Some([model |-> <<"WC-9">>, note |-> <<"n">>])),
     Entity(<<"status:", "active">>, "state", <<"custom">>, None)}
IndexRelationshipInputs ==
    {Relationship(<<"WRN-1">>, "compatible_with", <<"WRN-4">>, None),
     Relationship(<<"WRN-1">>, "replaces", <<"WRN-3">>,
                  Some([since |-> <<"2.0">>]))}

INext ==
    \/ \E e \in IndexEntityInputs : AddEntity(e, "none")
    \/ \E r \in IndexRelationshipInputs : AddRelationship(r, "none")
    \/ \E R \in SchematicBatches : IndexSchematics(R)

(***************************************************************************)
(* SpecGraphReindex: records indexed again after their status, category or *)
(* model changed                                                           *)
(***************************************************************************)
Schematic1Deprecated == [Schematic1 EXCEPT !.status = <<"deprecated">>]
Schematic1Moved ==
    [Schematic1 EXCEPT !.category = <<"sensors">>, !.model = <<"WC-200">>]

ReindexBatches ==
    {<<Schematic1>>, <<Schematic1Deprecated>>, <<Schematic1Moved>>}

JNext ==
    \/ \E r \in IndexRelationshipInputs : AddRelationship(r, "none")
    \/ \E R \in ReindexBatches : IndexSchematics(R)

(***************************************************************************)
(* GraphStore called from several threads: the connection is opened with   *)
(* check_same_thread=False and nothing excludes one call from another, so  *)
(* a thread may be preempted between the commit and the graph update       *)
(***************************************************************************)
\* lines 159-164 of add_entity, 193-199 of add_relationship
AddEntityTables(t, e, fault) ==
    /\ gpc[t] = GIdle
    /\ MayFault(fault)
    /\ LET stmt == InsertOrReplaceEntity(db, e)
       IN  /\ db' = ViewAfter(db, disk, stmt, fault)
           /\ disk' = FileAfter(db, disk, stmt, fault)
    /\ nfaults' = CountFault(fault)
    /\ IF fault = "none"
       THEN /\ gpc' = [gpc EXCEPT ![t] =
                          [at |-> "mirror", result |-> AddEntityResult(e, fault)]]
            /\ glast' = [op |-> "call", thread |-> t]
       ELSE /\ gpc' = gpc
            /\ glast' = AddEntityResult(e, fault)
    /\ UNCHANGED <<graph, acked, svars, mvars>>

AddRelationshipTables(t, r, fault) ==
    /\ gpc[t] = GIdle
    /\ MayFault(fault)
    /\ LET stmt == InsertOrIgnoreTriplet(db, r)
       IN  /\ db' = ViewAfter(db, disk, stmt, fault)
           /\ disk' = FileAfter(db, disk, stmt, fault)
    /\ nfaults' = CountFault(fault)
    /\ LET res == AddRelationshipResult(r, fault, db, graph, [op |-> "call"])
       IN  IF fault = "none"
           THEN /\ gpc' = [gpc EXCEPT ![t] = [at |-> "mirror", result |-> res]]
                /\ glast' = [op |-> "call", thread |-> t]
           ELSE /\ gpc' = gpc
                /\ glast' = res
    /\ UNCHANGED <<graph, acked, svars, mvars>>

\* lines 166-172 of add_entity, 201-207 of add_relationship
AddMirror(t) ==
    /\ gpc[t] # GIdle
    /\ LET res == gpc[t].result
       IN  /\ graph' = IF res.op = "add_entity"
                       THEN MirrorEntity(graph, res.entity)
                       ELSE MirrorRelationship(graph, res.rel)
           /\ acked' = IF res.op = "add_entity"
                       THEN AckEntity(acked, db, res.entity)
                       ELSE AckTriple(acked, res.rel, res.result)
           /\ glast' = res
    /\ gpc' = [gpc EXCEPT ![t] = GIdle]
    /\ UNCHANGED <<db, disk, nfaults, svars, mvars>>

(***************************************************************************)
(* GraphStore: next-state relations                                        *)
(***************************************************************************)
\* SpecGraph: the calls of one event loop, each a single step
GNext ==
    \/ \E e \in EntityInputs, f \in Faults : AddEntity(e, f)
    \/ \E r \in RelationshipInputs, f \in Faults : AddRelationship(r, f)
    \/ \E t \in {"t1"} : Stats(t)

\* SpecGraphThreads: the calls of two threads
ThreadEntityInputs == {Entity("A", "robot", "Atlas", None)}
ThreadRelationshipInputs ==
    {Relationship("A", "depends_on", "B", None),
     Relationship("B", "depends_on", "A", Some([k |-> "w"]))}

TNext ==
    \/ \E t \in GThreads, e \in ThreadEntityInputs, f \in Faults :
          AddEntityTables(t, e, f)
    \/ \E t \in GThreads, r \in ThreadRelationshipInputs, f \in Faults :
          AddRelationshipTables(t, r, f)
    \/ \E t \in GThreads : AddMirror(t)
    \/ \E t \in GThreads : Stats(t)

(***************************************************************************)
(* GraphStore: properties                                                  *)
(***************************************************************************)
\* C6: adding twice a relationship that was not stored increases
\* stats().relationship_count by exactly 1 over its value before the first
\* add, whatever the graph held before.
C6_TwiceAddsOne ==
    (glast.op = "add_relationship" /\ glast.second)
        => RelationshipCount(graph) = glast.base_count + 1

\* C7: after any sequence of add_entity and add_relationship calls (none
\* of which met a storage fault) the in-memory graph is the graph that
\* _load_graph builds from the tables.
C7_MirrorEqualsDurable == ~faulted => graph = LoadGraph(db)

RowsJoin(d, u, v) ==
    \E i \in DOMAIN d.triplets :
        d.triplets[i].subject = u /\ d.triplets[i].object = v

RowsMention(d, id) ==
    \E i \in DOMAIN d.triplets :
        d.triplets[i].subject = id \/ d.triplets[i].object = id

\* C8: with concurrent callers and no storage fault, a read (here stats)
\* never runs in a state where a triplet or entity row has no edge or node
\* in the graph, or an edge or node of the graph has no row behind it.
C8_ReadsSeeTablesAndMirrorTogether ==
    (glast.op = "stats" /\ ~faulted) =>
        /\ \A i \in DOMAIN db.triplets :
               <<db.triplets[i].subject, db.triplets[i].object>>
                   \in DOMAIN graph.edges
        /\ \A id \in DOMAIN db.entities : id \in DOMAIN graph.nodes
        /\ \A uv \in DOMAIN graph.edges : RowsJoin(db, uv[1], uv[2])
        /\ \A id \in DOMAIN graph.nodes :
               id \in DOMAIN db.entities \/ RowsMention(db, id)

\* C9: a call that meets a storage fault returns false and leaves no trace:
\* every row of the database file, also after later commits, and every
\* node and edge of the graph comes from a call that returned true.
C9_FaultLeavesNoTrace ==
    /\ (glast.op \in {"add_entity", "add_relationship"}
            /\ glast.fault # "none") => glast.result = FALSE
    /\ \A i \in DOMAIN disk.triplets :
           Triple(disk.triplets[i]) \in acked.triples
    /\ \A id \in DOMAIN disk.entities :
           <<id, disk.entities[id]>> \in acked.entities
    /\ \A uv \in DOMAIN graph.edges :
           \E tr \in acked.triples : tr[1] = uv[1] /\ tr[3] = uv[2]

\* C10: add_relationship returns true exactly when the call persisted a
\* new triplet row: a true return means the triple was not stored before
\* and its row is in the database file, a duplicate or a storage fault
\* returns false, and every triplet row of the database file was put there
\* by a call that returned true.
C10_TrueIffNewRowPersisted ==
    /\ glast.op = "add_relationship" =>
           /\ glast.result <=>
                  (~glast.stored_before /\ HasTriple(disk, glast.rel))
           /\ glast.stored_before => ~glast.result
           /\ glast.fault # "none" => ~glast.result
    /\ \A i \in DOMAIN disk.triplets :
           Triple(disk.triplets[i]) \in acked.triples

\* C11: add_entity(e) followed by get_entity(e.id) returns an entity equal
\* to e in id, entity_type, name and metadata, for non-empty, empty and
\* absent metadata.
C11_EntityRoundTrip ==
    (/\ glast.op = "get_entity"
     /\ glast.after_add # None
     /\ glast.after_add[1].id = glast.id)
        => glast.result = glast.after_add

\* C12: get_entity(id) returns the type, name and metadata of the most
\* recent add_entity of that id and nothing of an earlier one, add_entity
\* returns true also for an id that exists, and no step removes an entity.
C12_UpsertLastWriteWins ==
    [][/\ (glast'.op = "get_entity" /\ glast'.id \in DOMAIN acked.latest)
              => glast'.result = Some(acked.latest[glast'.id])
       /\ (glast'.op = "add_entity" /\ glast'.fault = "none")
              => glast'.result
       /\ DOMAIN acked.latest \subseteq DOMAIN db'.entities]_vars

\* u and v are joined by an edge in either direction
Joined(G, u, v) == <<u, v>> \in DOMAIN G.edges \/ <<v, u>> \in DOMAIN G.edges

\* the nodes within k hops of the nodes S when direction is ignored
RECURSIVE Within(_, _, _)
Within(G, S, k) ==
    IF k = 0 THEN S
    ELSE Within(G, S \cup {w \in DOMAIN G.nodes :
                              \E v \in S : Joined(G, v, w)}, k - 1)

Connected(G, u, v) == v \in Within(G, {u}, Cardinality(DOMAIN G.nodes))

\* the least number of hops from u to a node v connected to it
Hops(G, u, v) ==
    CHOOSE k \in 0..Cardinality(DOMAIN G.nodes) :
        /\ v \in Within(G, {u}, k)
        /\ \A j \in 0..(k - 1) : v \notin Within(G, {u}, j)

\* C13: for two graph nodes connected when direction is ignored,
\* shortest_path returns a path from source to target whose consecutive
\* nodes are joined by an edge in either direction and whose number of
\* hops is the least possible.
C13_ShortestPathIsMinimumHop ==
    (/\ glast.op = "shortest_path"
     /\ glast.source \in DOMAIN graph.nodes
     /\ glast.target \in DOMAIN graph.nodes
     /\ Connected(graph, glast.source, glast.target))
        => /\ glast.result # None
           /\ LET path == glast.result[1]
              IN  /\ Len(path) >= 1
                  /\ path[1] = glast.source
                  /\ path[Len(path)] = glast.target
                  /\ \A i \in 1..(Len(path) - 1) :
                         Joined(graph, path[i], path[i + 1])
                  /\ Len(path) - 1 = Hops(graph, glast.source, glast.target)

\* C13 witness: the one-hop path is returned where a three-hop path exists
C13_Witness ==
    /\ glast.op = "shortest_path"
    /\ glast.result = Some(<<"A", "D">>)
    /\ Joined(graph, "A", "B") /\ Joined(graph, "B", "C")
    /\ Joined(graph, "C", "D")

\* C14: shortest_path(x, x) is [x] for every graph node x, also one that
\* only a relationship refers to; shortest_path(a, b) is null when a or b
\* is no graph node and when no undirected path joins them.
C14_PathIdentityAndNull ==
    glast.op = "shortest_path" =>
        LET a == glast.source
            b == glast.target
            nodes == DOMAIN graph.nodes
        IN  /\ (a = b /\ a \in nodes) => glast.result = Some(<<a>>)
            /\ (a \notin nodes \/ b \notin nodes) => glast.result = None
            /\ (a \in nodes /\ b \in nodes /\ ~Connected(graph, a, b))
                   => glast.result = None

\* C14 witness: x to x for a node that no add_entity created
C14_Witness ==
    /\ glast.op = "shortest_path"
    /\ glast.source = glast.target
    /\ glast.source \in DOMAIN graph.nodes
    /\ glast.source \notin DOMAIN db.entities
    /\ glast.result = Some(<<glast.source>>)

\* C15: get_neighbors returns, each once, exactly the objects of the
\* relationships added with the id as subject (outgoing), the subjects of
\* those added with it as object (incoming), or both sets' union (both);
\* the list is empty for an id that is no graph node or has no edges.
C15_NeighborsAreAddedEnds ==
    glast.op = "get_neighbors" =>
        LET res == glast.result
            out == {tr[3] : tr \in {x \in acked.triples : x[1] = glast.id}}
            inc == {tr[1] : tr \in {x \in acked.triples : x[3] = glast.id}}
            expected == CASE glast.direction = "outgoing" -> out
                          [] glast.direction = "incoming" -> inc
                          [] glast.direction = "both" -> out \cup inc
        IN  /\ {res[i] : i \in DOMAIN res} = expected
            /\ \A i, j \in DOMAIN res : res[i] = res[j] => i = j
            /\ glast.id \notin DOMAIN graph.nodes => res = <<>>

\* C15 witness: 'both' for a node with a neighbour in both directions and
\* another neighbour
C15_Witness ==
    /\ glast.op = "get_neighbors"
    /\ glast.direction = "both"
    /\ Len(glast.result) = 2
    /\ \E x \in DOMAIN graph.nodes :
           /\ <<glast.id, x>> \in DOMAIN graph.edges
           /\ <<x, glast.id>> \in DOMAIN graph.edges

\* C16: index_schematics run a second time on the same batch returns the
\* total_entities and total_relationships of the first run and leaves the
\* tables and the in-memory graph as the first run left them, whatever the
\* store held before.
C16_IndexTwiceChangesNothing ==
    (glast.op = "index_schematics" /\ glast.rerun) =>
        /\ glast.result.total_entities = glast.first_result.total_entities
        /\ glast.result.total_relationships
               = glast.first_result.total_relationships
        /\ db = glast.db_before
        /\ disk = glast.disk_before
        /\ graph = glast.graph_before

\* C16 witness: a second run on a batch that stored relationships, in a
\* store that held a relationship of its own before
C16_Witness ==
    /\ glast.op = "index_schematics"
    /\ glast.rerun
    /\ glast.result.total_relationships > 0
    /\ \E i \in DOMAIN db.triplets : db.triplets[i].predicate = "replaces"

\* two different schematics of the batch that share a non-empty model
SameModel(schematics, i, j) ==
    /\ i # j
    /\ Get(schematics[i], "model", <<>>) # <<>>
    /\ Get(schematics[i], "model", <<>>) = Get(schematics[j], "model", <<>>)

\* C17: after index_schematics(R) both compatible_with triplets are stored
\* for every two distinct records of R with the same non-empty model, and
\* every compatible_with triplet the call added joins two such records,
\* never records of different models nor a record with itself.
C17_CompatibleWithSameModel ==
    glast.op = "index_schematics" =>
        LET R == glast.schematics
        IN  /\ \A i, j \in DOMAIN R :
                   SameModel(R, i, j) =>
                       LET r == Relationship(R[i].id, "compatible_with",
                                             R[j].id, None)
                       IN  HasTriple(db, r) /\ HasTriple(disk, r)
            /\ \A k \in DOMAIN db.triplets :
                   LET row == db.triplets[k]
                   IN  (/\ row.predicate = "compatible_with"
                        /\ ~HasTriple(glast.db_before, row))
                           => /\ row.subject # row.object
                              /\ \E i, j \in DOMAIN R :
                                     /\ SameModel(R, i, j)
                                     /\ R[i].id = row.subject
                                     /\ R[j].id = row.object

\* C17 witness: a batch with records of one model, of another model and of
\* no model, in a store that already joined records of different models
C17_Witness ==
    /\ glast.op = "index_schematics"
    /\ Len(glast.schematics) = 4
    /\ HasTriple(glast.db_before,
                 Relationship(<<"WRN-1">>, "compatible_with", <<"WRN-4">>,
                              None))
    /\ HasTriple(db, Relationship(<<"WRN-3">>, "compatible_with",
                                  <<"WRN-1">>, None))

\* the ids of the calls that returned true: the entities, and the subjects
\* and objects of the relationships
AddedIds ==
    {p[1] : p \in acked.entities}
        \cup {t[1] : t \in acked.triples} \cup {t[3] : t \in acked.triples}

\* C31: after close() and a new GraphStore on the same file, get_entity,
\* get_related, get_neighbors and shortest_path answer for every id that
\* was successfully added as the closed store answered.
C31_ReopenSameAnswers ==
    glast.op = "reopen" =>
        \A x \in AddedIds :
            /\ GetEntityResult(db, x) = GetEntityResult(glast.db_before, x)
            /\ GetRelatedResult(db, x, AnyPredicate)
                   = GetRelatedResult(glast.db_before, x, AnyPredicate)
            /\ \A d \in Directions :
                   NeighborSet(graph, x, d)
                       = NeighborSet(glast.graph_before, x, d)
            /\ \A y \in AddedIds :
                   ShortestPathResult(graph, x, y)
                       = ShortestPathResult(glast.graph_before, x, y)

\* C33: an add_relationship call for a triple that is already stored leaves
\* the triplets table, with the stored metadata, and the in-memory graph,
\* with its edge set, edge predicates and edge attributes, as they were.
C33_DuplicateAddIsNoOp ==
    [][(glast'.op = "add_relationship" /\ glast'.stored_before) =>
        /\ db' = db
        /\ disk' = disk
        /\ graph' = graph
    ]_vars

\* C35: stats() reports entity_count equal to the sum of the entity_types
\* counts and relationship_count equal to the sum of the predicate_counts.
C35_GraphStatsConsistent ==
    glast.op = "stats" =>
        /\ glast.entity_count
               = SumCounts(glast.entity_types, DOMAIN glast.entity_types)
        /\ glast.relationship_count
               = SumCounts(glast.predicate_counts,
                           DOMAIN glast.predicate_counts)

Objects(rels) == {rels[i].object : i \in DOMAIN rels}
SubjectsOf(rels) == {rels[i].subject : i \in DOMAIN rels}

\* C37: in every state of an open store and for every id x,
\* get_neighbors(x, 'outgoing') is the set of objects of get_related(x) and
\* get_neighbors(x, 'incoming') the set of subjects of get_subjects(x).
C37_NeighborsMatchTables ==
    \A x \in QueryIds :
        /\ NeighborSet(graph, x, "outgoing")
               = Objects(GetRelatedResult(db, x, AnyPredicate))
        /\ NeighborSet(graph, x, "incoming")
               = SubjectsOf(GetSubjectsResult(db, x, AnyPredicate))

\* C38: index_schematics returns entities_added equal to the number of
\* entities that did not exist before the call and relationships_added
\* equal to the number of triplets the call newly persisted; a second run
\* on the same batch returns 0 for both.
C38_IndexCountsNewRows ==
    glast.op = "index_schematics" =>
        /\ glast.result.entities_added
               = Cardinality(DOMAIN db.entities
                                 \ DOMAIN glast.db_before.entities)
        /\ glast.result.relationships_added
               = Len(disk.triplets) - Len(glast.disk_before.triplets)
        /\ glast.rerun => /\ glast.result.entities_added = 0
                          /\ glast.result.relationships_added = 0

\* the objects of the triplets of one subject and predicate
ObjectsOf(d, subject, predicate) ==
    {d.triplets[k].object :
        k \in {i \in DOMAIN d.triplets :
                  /\ d.triplets[i].subject = subject
                  /\ d.triplets[i].predicate = predicate}}

\* C39: after index_schematics every schematic of the batch has exactly one
\* has_status triplet, exactly one has_category triplet and at most one
\* belongs_to_model triplet, each pointing to the value of the schematic's
\* last record in the batch, whatever was indexed before.
C39_OneStatusCategoryModel ==
    glast.op = "index_schematics" =>
        LET R == glast.schematics
        IN  \A i \in DOMAIN R :
                (\A j \in DOMAIN R : j > i => R[j].id # R[i].id) =>
                    LET model == Get(R[i], "model", <<>>)
                    IN  /\ ObjectsOf(db, R[i].id, "has_status")
                               = {<<"status:">>
                                     \o Get(R[i], "status", <<"active">>)}
                        /\ ObjectsOf(db, R[i].id, "has_category")
                               = {<<"category:">>
                                     \o Get(R[i], "category", <<"unknown">>)}
                        /\ ObjectsOf(db, R[i].id, "belongs_to_model")
                               = IF model # <<>>
                                 THEN {<<"model:">> \o model} ELSE {}

(***************************************************************************)
(* Specifications                                                          *)
(***************************************************************************)
Init == SInit /\ GInit /\ MInit

\* the graph store, beside a scratchpad nobody calls
InitGraph == SInit /\ has_llm_config = FALSE /\ GInit /\ MInit

\* the singleton's functions, beside stores nobody calls
InitSingleton == SInit /\ has_llm_config = FALSE /\ GInit /\ MInit

Spec == Init /\ [][SNext]_vars

SpecRead == Init /\ [][RNext]_vars

SpecMinimize == Init /\ [][MNext]_vars

SpecExpiry == Init /\ [][XNext]_vars

SpecClear == Init /\ [][KNext]_vars

SpecReaders == Init /\ [][DNext]_vars

SpecReadFilter == Init /\ [][FNext]_vars

SpecConcurrentWrites == Init /\ [][WNext]_vars

SpecCallsReturn == Init /\ [][VNext]_vars /\ CallsReturnFairness

SpecGraph == InitGraph /\ [][GNext]_vars

SpecGraphThreads == InitGraph /\ [][TNext]_vars

SpecGraphEntity == InitGraph /\ [][ENext]_vars

SpecGraphQuery == InitGraph /\ [][QNext]_vars

SpecGraphIndex == InitGraph /\ [][INext]_vars

SpecGraphReopen == InitGraph /\ [][PNext]_vars

SpecGraphRelated == InitGraph /\ [][ANext]_vars

SpecGraphReindex == InitGraph /\ [][JNext]_vars

SpecSingleton == InitSingleton /\ [][LNext]_vars

====
